---- MODULE Spec2Model ----
(***************************************************************************)
(* Model of the cashu-wallet-rs wallet core: the deterministic counter     *)
(* manager (wallet/counter.rs), the single-mint wallet operations          *)
(* (wallet/mod.rs), the multi-mint coordinator (unity.rs) and the two      *)
(* store backends (store/impl_redb.rs, store-sqlite/src/lib.rs).           *)
(*                                                                         *)
(* One mint URL and one mnemonic (owner pubkey "pk") are modelled.  A      *)
(* keyset id is a small integer whose order is the byte order of the hex   *)
(* id; a timestamp is a tick of a logical clock that every reading of      *)
(* unixtime_ms advances.                                                    *)
(***************************************************************************)
EXTENDS Integers, Sequences, FiniteSets, TLC

\* ------------------------------------------------------------------ bounds
\* total number of mint/swap/melt requests started in one behaviour
MaxOps == 2
\* indices a counter may reach in the model (guards derivation)
MaxIdx == 6
\* batch_size passed to restore
RestoreBatch == 2
\* outputs the mint signed for this mnemonic before the store was created
PreSigned == 4

\* secrets the mint signs in one behaviour of the proofs specification
MaxSecrets == 2
\* restores run in one behaviour of the proofs specification
MaxRestoreRuns == 2

\* highest counter of a record passed to add_counter in the counters-table
\* specification
MaxCounter == 2

\* calls of count() in one behaviour of the count-session specification
MaxCounts == 3
\* times the Manager is rebuilt in one behaviour of that specification
MaxLoads == 1

\* ------------------------------------------------------- program constants
\* counter.rs:237  (2u64.pow(31) - 1) - 50
CounterLimit == 2147483597
\* mod.rs:590  while emptys < 3
EmptyBatches == 3
\* mod.rs:737  for i in (0..3).rev()
SwapAttempts == 3

\* the two tasks that issue requests concurrently
Req == {"t1", "t2"}

Backends == {"redb", "sqlite"}

\* the owner pubkey derived from the mnemonic, "" for Record::new(.., None)
PK == "pk"

\* ------------------------------------------------------------ pure helpers
Max(a, b) == IF a >= b THEN a ELSE b

SetMax(S) == CHOOSE x \in S : \A y \in S : y <= x

\* decimal digits of n, most significant first (serde_json prints u64 so)
RECURSIVE Digits(_)
Digits(n) == IF n < 10 THEN <<n>> ELSE Digits(n \div 10) \o <<n % 10>>

\* byte order of two digit strings
RECURSIVE LexLess(_, _)
LexLess(a, b) ==
    IF b = <<>> THEN FALSE
    ELSE IF a = <<>> THEN TRUE
    ELSE IF Head(a) # Head(b) THEN Head(a) < Head(b)
    ELSE LexLess(Tail(a), Tail(b))

\* Amount::split of the cashu crate: the set bits of the amount, largest
\* first.  p is the value of the lowest bit of a.
RECURSIVE splitFrom(_, _)
splitFrom(a, p) ==
    IF a = 0 THEN <<>>
    ELSE IF a % 2 = 1 THEN splitFrom(a \div 2, 2 * p) \o <<p>>
    ELSE splitFrom(a \div 2, 2 * p)

split(a) == splitFrom(a, 1)

\* ((fee as f64).log2().ceil() as u64): the cast of -inf (fee = 0) saturates
\* to 0
RECURSIVE CeilLog2From(_, _)
CeilLog2From(f, k) == IF 2^k >= f THEN k ELSE CeilLog2From(f, k + 1)

CeilLog2(f) == IF f = 0 THEN 0 ELSE CeilLog2From(f, 0)

\* PreMintSecretsHyper::split_blank: the number of blank outputs
split_blank_count(fee_reserve) == Max(CeilLog2(fee_reserve), 1)

\* PreMintSecretsHyper::split_amount2: the amounts of the planned outputs,
\* keep segment first; the caller draws one counter index per amount.
\* denomination > 2 panics in the code and is not drawn by the model.
split_amount2(amount_keep, amount_send, denomination) ==
    LET splited_keep == split(amount_keep)
        splited_send ==
            IF amount_send = 0 THEN <<>>
            ELSE IF denomination = 0 THEN split(amount_send)
            ELSE LET units == amount_send \div denomination
                     others == amount_send % denomination
                 IN [i \in 1..units |-> denomination] \o split(others)
    IN [amounts |-> splited_keep \o splited_send,
        send_idx_start |-> Len(splited_keep)]

\* ---------------------------------------------------------------- records
\* Record::new(mint, keysetid, pubkey): counter 0, ts = unixtime_ms()
NewRecord(keysetid, pubkey, now) ==
    [keysetid |-> keysetid, pubkey |-> pubkey, counter |-> 0, ts |-> now]

SameKey(a, b) == a.keysetid = b.keysetid /\ a.pubkey = b.pubkey

\* ------------------------------------------------- store: counters, redb
\* The redb counters table is a multimap mint -> JSON string: a set of
\* records.  insert reports whether the very same string was present; only
\* when it was not, the rows of the same (pubkey, keysetid) with a lower
\* counter are removed.
RedbAddCounter(tbl, record) ==
    IF record \in tbl THEN tbl
    ELSE LET t2 == tbl \cup {record}
             olds == {t \in t2 : /\ t.pubkey = record.pubkey
                                 /\ t.keysetid = record.keysetid
                                 /\ t.counter < record.counter}
         IN t2 \ olds

\* sqlite: insert .. ON CONFLICT(mint, keysetid, pubkey) DO UPDATE SET
\* counter = excluded.counter (the row keeps its ctime)
SqliteAddCounter(tbl, record) ==
    IF \E t \in tbl : SameKey(t, record)
    THEN {IF SameKey(t, record) THEN [t EXCEPT !.counter = record.counter]
          ELSE t : t \in tbl}
    ELSE tbl \cup {record}

add_counter(be, tbl, record) ==
    IF be = "redb" THEN RedbAddCounter(tbl, record)
    ELSE SqliteAddCounter(tbl, record)

\* order of get_counters: by ts; rows of equal ts keep the table order,
\* which in redb is the byte order of the JSON (keysetid, counter, ts ..)
RowBefore(a, b) ==
    \/ a.ts < b.ts
    \/ a.ts = b.ts /\ a.keysetid < b.keysetid
    \/ a.ts = b.ts /\ a.keysetid = b.keysetid
       /\ LexLess(Digits(a.counter), Digits(b.counter))

RECURSIVE SortRows(_)
SortRows(S) ==
    IF S = {} THEN <<>>
    ELSE LET m == CHOOSE x \in S : \A y \in S \ {x} : RowBefore(x, y)
         IN <<m>> \o SortRows(S \ {m})

get_counters(tbl, pubkey) == SortRows({t \in tbl : t.pubkey = pubkey})

\* ----------------------------------------------------- counter manager
\* a keyset of the wallet: [id, unit]
KeysetIdx(keysets, id) ==
    IF \E i \in DOMAIN keysets : keysets[i].id = id
    THEN CHOOSE i \in DOMAIN keysets : keysets[i].id = id
    ELSE 0

\* stable insertion of counter c into a list sorted by record.ts
RECURSIVE InsertByTs(_, _)
InsertByTs(s, c) ==
    IF s = <<>> THEN <<c>>
    ELSE IF Head(s).record.ts <= c.record.ts
         THEN <<Head(s)>> \o InsertByTs(Tail(s), c)
         ELSE <<c>> \o s

RECURSIVE SortByTs(_)
SortByTs(s) ==
    IF s = <<>> THEN <<>>
    ELSE InsertByTs(SortByTs(SubSeq(s, 1, Len(s) - 1)), s[Len(s)])

\* Record::to_counter: dropped when the keyset is not one of the wallet's
to_counter(record, keysets) ==
    [record |-> record, state |-> record.counter,
     keysetidx |-> KeysetIdx(keysets, record.keysetid)]

\* Manager::records: counters of the stored records whose keyset is known,
\* then a fresh counter (index 0, empty pubkey) for every keyset without
\* one, retired counters dropped, sorted by first-seen timestamp
records(recs, keysets, now) ==
    LET olds == SelectSeq([i \in DOMAIN recs |-> to_counter(recs[i], keysets)],
                          LAMBDA c : c.keysetidx # 0)
        newks == SelectSeq(keysets,
                     LAMBDA ks : ~\E i \in DOMAIN olds :
                                     olds[i].record.keysetid = ks.id)
        news == [i \in DOMAIN newks |->
                    to_counter(NewRecord(newks[i].id, "", now), keysets)]
        live == SelectSeq(olds \o news,
                          LAMBDA c : c.record.counter < CounterLimit)
    IN SortByTs(live)

\* a start_count that takes the first counter whatever its unit
start_count_any_unit(counters, unit, keysets) ==
    IF counters = <<>> THEN 0 ELSE 1

\* Manager::start_count: position of the first counter whose keyset has the
\* unit, 0 when none ("counters not find suitable keyset")
start_count(counters, unit, keysets) ==
    IF \E i \in DOMAIN counters : keysets[counters[i].keysetidx].unit = unit
    THEN CHOOSE i \in DOMAIN counters :
            /\ keysets[counters[i].keysetidx].unit = unit
            /\ \A j \in 1..(i - 1) : keysets[counters[j].keysetidx].unit # unit
    ELSE 0

\* ManagerCounter::count applied n times: the cursor after a batch
count_n(c, n) == [c EXCEPT !.state = c.state + n]

\* a cancel that leaves the cursor where the request moved it
cancel_keeps_cursor(c) == c

\* ManagerCounter::cancel (also run by Drop)
cancel(c) == [c EXCEPT !.state = c.record.counter]

\* a commit that fills in the pubkey and does not take over the cursor
commit_without_cursor(c, hasMn) ==
    [c EXCEPT !.record.pubkey = IF hasMn /\ c.record.pubkey = ""
                                THEN PK ELSE c.record.pubkey]

\* ManagerCounter::commit, in-memory part: record.counter = state, and the
\* pubkey is filled in when a mnemonic is present
commit_mem(c, hasMn) ==
    [c EXCEPT !.record.counter = c.state,
              !.record.pubkey = IF hasMn /\ c.record.pubkey = ""
                                THEN PK ELSE c.record.pubkey]

\* a commit that writes the record whether or not there is a mnemonic
commit_stores_always(be, tbl, c, hasMn) ==
    add_counter(be, tbl, commit_mem(c, hasMn).record)

\* a commit that never reaches the store
commit_skips_store(be, tbl, c, hasMn) == tbl

\* ManagerCounter::commit, store part: add_record only with a mnemonic
commit_store(be, tbl, c, hasMn) ==
    IF hasMn THEN add_counter(be, tbl, commit_mem(c, hasMn).record)
    ELSE tbl

\* ------------------------------------------------------------------ state
VARIABLES
    backend,        \* which UnitedStore implementation is in use
    hasMnemonic,    \* whether the UnitedWallet was given a mnemonic
    clock,          \* next value of unixtime_ms
    storeCounters,  \* the counters table of the store
    current,        \* the Wallet instance in UnitedWallet.wallets for the mint
    ninst,          \* Wallet instances created since the process started
    mgr,            \* instance -> Manager.counters
    lock,           \* instance -> holder of the tokio Mutex around Manager
    req,            \* task -> the request it runs
    signed,         \* indices whose blinded output the mint has signed
    rst,            \* the task running Wallet::restore
    last,           \* how the request that returned last ended
    nops, crashed, restored,
    storeProofs,    \* the proofs table of the store
    pstate,         \* the tasks of the proofs specification
    storeTx,        \* the transaction tables of the store
    tstate,         \* bookkeeping of the transaction specification
    sess            \* the count session of the counter-manager specification

\* the variables the counter specification leaves alone
ovars == <<storeProofs, pstate, storeTx, tstate, sess>>

\* the variables of the counter specification other than the counters table
cvars_but_store ==
    <<backend, hasMnemonic, clock, current, ninst, mgr, lock, req, signed,
      rst, last, nops, crashed, restored>>

cvars == <<backend, hasMnemonic, clock, storeCounters, current, ninst, mgr,
           lock, req, signed, rst, last, nops, crashed, restored>>

\* the keysets the mint publishes
Keysets == <<[id |-> 1, unit |-> "sat"]>>

\* the Wallet instances of the mint: the one add_mint created first and
\* the one a reconnect replaces it with
Insts == {1, 2}

\* the requests a task may issue: mint_token(amount), a swap with
\* (keep, send, denomination) from receive_token or send, melt(fee_reserve)
Requests ==
    {[kind |-> "mint", keep |-> 3, send |-> 0, denom |-> 0, fee |-> 0],
     [kind |-> "swap", keep |-> 2, send |-> 0, denom |-> 0, fee |-> 0],
     [kind |-> "swap", keep |-> 1, send |-> 1, denom |-> 0, fee |-> 0],
     [kind |-> "melt", keep |-> 0, send |-> 0, denom |-> 0, fee |-> 1]}

\* number of blinded outputs one attempt of the request derives
NumOutputs(a) ==
    IF a.kind = "melt" THEN split_blank_count(a.fee)
    ELSE Len(split_amount2(a.keep, a.send, a.denom).amounts)

NoArgs == [kind |-> "none", keep |-> 0, send |-> 0, denom |-> 0, fee |-> 0]

IdleReq == [pc |-> "idle", args |-> NoArgs, inst |-> 0, start |-> 0,
            first |-> 0, i |-> 0, reuse |-> FALSE]

NoLast == [outcome |-> "none", args |-> NoArgs, inst |-> 0, start |-> 0,
           attempts |-> 0]

\* stored: the counter the last restore of this process wrote (0: none)
IdleRst == [pc |-> "idle", inst |-> 0, before |-> 0, offset |-> 0,
            emptys |-> 0, stored |-> 0]

\* Wallet::new / update_mnmonic: the Manager built from the stored records
LoadManager(tbl, mn, now) ==
    records(IF mn THEN get_counters(tbl, PK) ELSE <<>>, Keysets, now)

\* whether building the Manager called Record::new (read the clock)
LoadTicks(tbl, mn) ==
    \E i \in DOMAIN Keysets :
        ~\E t \in (IF mn THEN {x \in tbl : x.pubkey = PK} ELSE {}) :
            t.keysetid = Keysets[i].id

CInit ==
    /\ backend \in Backends
    /\ hasMnemonic = TRUE
    /\ clock = 2
    /\ storeCounters = {}
    /\ current = 1
    /\ ninst = 1
    /\ mgr = [k \in Insts |-> IF k = 1 THEN LoadManager({}, hasMnemonic, 1)
                              ELSE <<>>]
    /\ lock = [k \in Insts |-> "free"]
    /\ req = [r \in Req |-> IdleReq]
    /\ rst = IdleRst
    /\ last = NoLast
    /\ nops = 0
    /\ crashed = FALSE
    /\ restored = FALSE
    /\ sess = <<>>

\* the counter a request on instance k works on
Pos(k) == start_count(mgr[k], "sat", Keysets)

Cur(k) == mgr[k][Pos(k)]

\* indices of the current attempt of request q
IdxRange(q) == q.first..(q.first + NumOutputs(q.args) - 1)

\* attempts of try_to_call_swap made so far by request q
Attempts(q) == SwapAttempts - q.i

\* indices one request may consume: a swap may derive up to three batches
Budget(a) ==
    IF a.kind = "swap" THEN SwapAttempts * NumOutputs(a) ELSE NumOutputs(a)

\* whether deriving the range lo..hi re-derives an index the mint has signed
Rederives(lo, n) == hasMnemonic /\ (lo..(lo + n - 1)) \cap signed # {}

\* ---------------------------------------------------- mint / swap / melt
\* UnitedWallet::get_wallet: the task takes the Arc<Wallet> now in the map
Start(r, a) ==
    /\ req[r].pc = "idle"
    /\ nops < MaxOps
    /\ nops' = nops + 1
    /\ req' = [req EXCEPT ![r] = [IdleReq EXCEPT !.pc = "waitlock",
                                                 !.args = a,
                                                 !.inst = current]]
    /\ UNCHANGED <<ovars, last, backend, hasMnemonic, clock, storeCounters, current, ninst,
                   mgr, lock, signed, rst, crashed, restored>>

\* self.counter.lock().await; start_count; split_amount / split_amount2 /
\* split_blank draw the indices; the request goes to the mint
Acquire(r) ==
    LET q == req[r]
        k == q.inst
        n == NumOutputs(q.args)
    IN /\ q.pc = "waitlock"
       /\ lock[k] = "free"
       /\ Pos(k) # 0
       /\ Cur(k).state + Budget(q.args) <= MaxIdx
       /\ lock' = [lock EXCEPT ![k] = r]
       /\ mgr' = [mgr EXCEPT ![k][Pos(k)] = count_n(Cur(k), n)]
       /\ req' = [req EXCEPT ![r] = [q EXCEPT
                      !.pc = "sent",
                      !.start = Cur(k).state,
                      !.first = Cur(k).state,
                      !.i = SwapAttempts - 1,
                      !.reuse = Rederives(Cur(k).state, n)]]
       /\ UNCHANGED <<ovars, last, backend, hasMnemonic, clock, storeCounters, current,
                      ninst, signed, rst, nops, crashed, restored>>

\* the request returns: the MutexGuard is dropped, the task is idle again
Return(r, c2, tbl2, sg2, out) ==
    LET q == req[r]
        k == q.inst
    IN /\ mgr' = [mgr EXCEPT ![k][Pos(k)] = c2]
       /\ storeCounters' = tbl2
       /\ signed' = sg2
       /\ lock' = [lock EXCEPT ![k] = "free"]
       /\ req' = [req EXCEPT ![r] = IdleReq]
       /\ last' = [outcome |-> out, args |-> q.args, inst |-> k,
                   start |-> q.start, attempts |-> Attempts(q)]
       /\ UNCHANGED <<ovars, backend, hasMnemonic, clock, current, ninst, rst, nops,
                      crashed, restored>>

\* the outputs the mint signs when it accepts the request: all of a mint or
\* swap, the change of a melt (none, or all blank outputs)
SignChoices(q) ==
    IF ~hasMnemonic THEN {{}}
    ELSE IF q.args.kind = "melt" THEN {{}, IdxRange(q)}
    ELSE {IdxRange(q)}

Conflict(q) == hasMnemonic /\ IdxRange(q) \cap signed # {}

\* the mint accepts and every local step succeeds.
\* mint_token and melt: commit after process_swap_response;
\* try_to_call_swap: commit only when counter.mnemonic() is some.
ReplyOk(r) ==
    LET q == req[r]
        c == Cur(q.inst)
        commits == q.args.kind # "swap" \/ hasMnemonic
    IN /\ q.pc = "sent"
       /\ ~Conflict(q)
       /\ \E sg \in SignChoices(q) :
             Return(r,
                    IF commits THEN commit_mem(c, hasMnemonic) ELSE cancel(c),
                    IF commits
                    THEN commit_store(backend, storeCounters, c, hasMnemonic)
                    ELSE storeCounters,
                    signed \cup sg, "ok")

\* the mint accepts, then process_swap_response fails.  mint() and melt()
\* return through `?` before counter.commit; the swap was committed inside
\* try_to_call_swap already.  A melt without change does not unblind.
ReplyOkUnblindFails(r) ==
    LET q == req[r]
        c == Cur(q.inst)
        commits == q.args.kind = "swap" /\ hasMnemonic
    IN /\ q.pc = "sent"
       /\ ~Conflict(q)
       /\ \E sg \in SignChoices(q) :
             /\ q.args.kind = "melt" => sg # {}
             /\ Return(r,
                    IF commits THEN commit_mem(c, hasMnemonic) ELSE cancel(c),
                    IF commits
                    THEN commit_store(backend, storeCounters, c, hasMnemonic)
                    ELSE storeCounters,
                    signed \cup sg, "unblind_failed")

\* the mint answers "outputs have already been signed before" and the swap
\* has attempts left: `continue`, the next batch is drawn from the cursor
ReplySignedRetry(r) ==
    LET q == req[r]
        k == q.inst
        n == NumOutputs(q.args)
    IN /\ q.pc = "sent"
       /\ Conflict(q)
       /\ q.args.kind = "swap"
       /\ q.i > 0
       /\ mgr' = [mgr EXCEPT ![k][Pos(k)] = count_n(Cur(k), n)]
       /\ req' = [req EXCEPT ![r] = [q EXCEPT
                      !.first = Cur(k).state,
                      !.i = q.i - 1,
                      !.reuse = q.reuse \/ Rederives(Cur(k).state, n)]]
       /\ UNCHANGED <<ovars, last, backend, hasMnemonic, clock, storeCounters, current,
                      ninst, lock, signed, rst, nops, crashed, restored>>

\* the mint answers "already signed" to the last attempt of a swap (commit,
\* then the error is returned) or to a mint or melt (`?`, Drop cancels)
ReplySignedFinal(r) ==
    LET q == req[r]
        c == Cur(q.inst)
    IN /\ q.pc = "sent"
       /\ Conflict(q)
       /\ q.args.kind = "swap" => q.i = 0
       /\ IF q.args.kind = "swap"
          THEN Return(r, commit_mem(c, hasMnemonic),
                      commit_store(backend, storeCounters, c, hasMnemonic),
                      signed, "signed_before")
          ELSE Return(r, cancel(c), storeCounters, signed, "signed_before")

\* any other failure of the network call: a mint error, a transport error,
\* a timeout.  With lost = TRUE the mint had accepted the request and the
\* answer did not arrive.
ReplyError(r, lost) ==
    LET q == req[r]
        c == Cur(q.inst)
    IN /\ q.pc = "sent"
       /\ lost => ~Conflict(q) /\ hasMnemonic
       /\ Return(r, cancel(c), storeCounters,
                 IF lost THEN signed \cup IdxRange(q) ELSE signed, "error")

\* the future of the request is dropped at its await (the caller gave up):
\* Drop for ManagerCounter cancels, the guard is released.  The mint may or
\* may not have processed the request.
DropFuture(r, lost) ==
    LET q == req[r]
        c == Cur(q.inst)
    IN /\ q.pc = "sent"
       /\ lost => ~Conflict(q) /\ hasMnemonic
       /\ Return(r, cancel(c), storeCounters,
                 IF lost THEN signed \cup IdxRange(q) ELSE signed, "dropped")

\* ------------------------------------------------------------ add_mint
\* add_mint(url, reconnect = true): Wallet::new loads a Manager from the
\* store and the map entry is replaced; tasks holding the old Arc go on
Reconnect ==
    /\ ninst + 1 \in Insts
    /\ ninst' = ninst + 1
    /\ current' = ninst + 1
    /\ mgr' = [mgr EXCEPT ![ninst + 1] =
                  LoadManager(storeCounters, hasMnemonic, clock)]
    /\ clock' = IF LoadTicks(storeCounters, hasMnemonic) THEN clock + 1
                ELSE clock
    /\ UNCHANGED <<ovars, last, backend, hasMnemonic, storeCounters, lock, req,
                   signed, rst, nops, crashed, restored>>

\* the process dies and starts again: every task and every Manager is gone,
\* the wallet is built from the store
Crash ==
    /\ ~crashed
    /\ crashed' = TRUE
    /\ ninst' = 1
    /\ current' = 1
    /\ mgr' = [k \in Insts |->
                  IF k = 1 THEN LoadManager(storeCounters, hasMnemonic, clock)
                  ELSE <<>>]
    /\ clock' = IF LoadTicks(storeCounters, hasMnemonic) THEN clock + 1
                ELSE clock
    /\ lock' = [k \in Insts |-> "free"]
    /\ req' = [r \in Req |-> IdleReq]
    /\ rst' = IdleRst
    /\ last' = NoLast
    /\ UNCHANGED <<ovars, backend, hasMnemonic, storeCounters, signed, nops,
                   restored>>

\* -------------------------------------------------------------- restore
\* Wallet::restore starts.  Without a given mnemonic it takes the wallet's
\* lock only to read the mnemonic; it counts on a Manager of its own,
\* built from no records.
RestoreStart(miGiven) ==
    /\ rst.pc = "idle"
    /\ hasMnemonic
    /\ ~restored
    /\ miGiven \/ lock[current] = "free"
    /\ restored' = TRUE
    /\ rst' = [IdleRst EXCEPT !.pc = "run", !.inst = current]
    /\ UNCHANGED <<ovars, last, backend, hasMnemonic, clock, storeCounters, current,
                   ninst, mgr, lock, req, signed, nops, crashed>>

\* one turn of `while emptys < 3`: split_blanks(batch_size), client.restore,
\* offset from the last acknowledged output, counter.commit(()), emptys
RestoreBatchStep ==
    LET batch == rst.before..(rst.before + RestoreBatch - 1)
        acked == batch \cap signed
        lastidx == SetMax(acked) - rst.before + 1
    IN /\ rst.pc = "run"
       /\ rst.emptys < EmptyBatches
       /\ rst' = [rst EXCEPT
              !.offset = IF acked # {} THEN rst.before + lastidx ELSE @,
              !.before = @ + RestoreBatch,
              !.emptys = IF acked = {} THEN @ + 1 ELSE @]
       /\ UNCHANGED <<ovars, last, backend, hasMnemonic, clock, storeCounters,
                      current, ninst, mgr, lock, req, signed, nops, crashed,
                      restored>>

\* the loop is over: the record is written when something was found
RestoreFinish ==
    /\ rst.pc = "run"
    /\ rst.emptys >= EmptyBatches
    /\ storeCounters' =
          IF rst.offset > 0
          THEN add_counter(backend, storeCounters,
                   [NewRecord(Keysets[1].id, PK, clock)
                       EXCEPT !.counter = rst.offset])
          ELSE storeCounters
    /\ clock' = IF rst.offset > 0 THEN clock + 1 ELSE clock
    /\ rst' = [IdleRst EXCEPT !.stored = rst.offset]
    /\ UNCHANGED <<ovars, last, backend, hasMnemonic, current, ninst, mgr, lock,
                   req, signed, nops, crashed, restored>>

\* client.restore or check_proofs fails, or the callback asks to exit: the
\* function returns before the record is written
RestoreAbort ==
    /\ rst.pc = "run"
    /\ rst.emptys < EmptyBatches
    /\ rst' = IdleRst
    /\ UNCHANGED <<ovars, last, backend, hasMnemonic, clock, storeCounters, current,
                   ninst, mgr, lock, req, signed, nops, crashed, restored>>

\* -------------------------------------------------------- specification
vars == <<cvars, ovars>>

\* the proofs and transactions parts of the store, left alone
NoProofs == storeProofs = {} /\ pstate = <<>>

NoTx == storeTx = <<>> /\ tstate = <<>>

\* a fresh store, and a mint that has not seen the mnemonic
Init == CInit /\ signed = {} /\ NoProofs /\ NoTx

\* a fresh store; the mnemonic may have been used at the mint before (the
\* case restore exists for)
InitRestore ==
    CInit /\ signed \in {{}, 0..(PreSigned - 1)} /\ NoProofs /\ NoTx

\* every way a request in flight can end
Finish(r) ==
    \/ ReplyOk(r)
    \/ ReplyOkUnblindFails(r)
    \/ ReplySignedRetry(r)
    \/ ReplySignedFinal(r)
    \/ \E lost \in BOOLEAN : ReplyError(r, lost)
    \/ \E lost \in BOOLEAN : DropFuture(r, lost)

\* two tasks issue requests while add_mint reconnects and the process may
\* restart once
Next ==
    \/ \E r \in Req, a \in Requests : Start(r, a)
    \/ \E r \in Req : Acquire(r)
    \/ \E r \in Req : Finish(r)
    \/ Reconnect
    \/ Crash

Spec == Init /\ [][Next]_vars

\* one task issues requests while a restore of the same wallet runs; the
\* process may restart once
NextRestore ==
    \/ \E a \in Requests : Start("t1", a)
    \/ Acquire("t1")
    \/ Finish("t1")
    \/ \E miGiven \in BOOLEAN : RestoreStart(miGiven)
    \/ RestoreBatchStep
    \/ RestoreFinish
    \/ RestoreAbort
    \/ Crash

SpecRestore == InitRestore /\ [][NextRestore]_vars

\* ------------------------------------------------- store: transactions
\* a transaction as the store sees it: id, kind, status and direction
Tx(id, kind, status, io) ==
    [id |-> id, kind |-> kind, status |-> status, io |-> io]

\* a redb table: a set of [key, tx] with one entry per key
TblPut(tbl, key, tx) ==
    {e \in tbl : e.key # key} \cup {[key |-> key, tx |-> tx]}

TblRemove(tbl, key) == {e \in tbl : e.key # key}

TblGet(tbl, key) == {e.tx : e \in {x \in tbl : x.key = key}}

\* redb add_transaction.  The key of a row is the txid, or for the copy
\* of a send-to-self the txid followed by the direction: <<id, "">> and
\* <<id, "Out">>.
RedbAddTransaction(st, tx) ==
    IF tx.status = "pending"
    THEN [st EXCEPT !.pending = TblPut(@, <<tx.id, "">>, tx)]
    ELSE LET record == TblGet(st.pending, <<tx.id, "">>)
             table == TblPut(st.done, <<tx.id, "">>, tx)
             self == tx.status = "success" /\ tx.io = "In"
                     /\ \E old \in record : old.io = "Out"
             oldtx == CHOOSE old \in record : TRUE
         IN [st EXCEPT
                !.pending = TblRemove(@, <<tx.id, "">>),
                !.done = IF self
                         THEN TblPut(table, <<tx.id, "Out">>,
                                     [oldtx EXCEPT !.status = "success"])
                         ELSE table]

\* sqlite add_transaction: insert, ON CONFLICT(id, io) DO UPDATE SET status
\* (info and fee too; the other columns keep their value)
SqliteAddTransaction(st, tx) ==
    IF \E t \in st.rows : t.id = tx.id /\ t.io = tx.io
    THEN [st EXCEPT !.rows =
             {IF t.id = tx.id /\ t.io = tx.io
              THEN [t EXCEPT !.status = tx.status] ELSE t : t \in st.rows}]
    ELSE [st EXCEPT !.rows = @ \cup {tx}]

add_transaction(be, st, tx) ==
    IF be = "redb" THEN RedbAddTransaction(st, tx)
    ELSE SqliteAddTransaction(st, tx)

\* get_transaction: redb looks in the pending table, then in the other;
\* sqlite fetches one row `where id = ?`, whichever comes first.  The set
\* of rows the call may return, empty for None.
get_transaction(be, st, id) ==
    IF be = "redb"
    THEN IF TblGet(st.pending, <<id, "">>) # {}
         THEN TblGet(st.pending, <<id, "">>)
         ELSE TblGet(st.done, <<id, "">>)
    ELSE {t \in st.rows : t.id = id}

\* every row the store holds
TxRows(be, st) ==
    IF be = "redb"
    THEN {e.tx : e \in st.pending} \cup {e.tx : e \in st.done}
    ELSE st.rows

\* get_pending_transactions
PendingRows(be, st) ==
    IF be = "redb" THEN {e.tx : e \in st.pending}
    ELSE {t \in st.rows : t.status = "pending"}

\* get_transactions of the terminal statuses
TerminalRows(be, st) ==
    IF be = "redb" THEN {e.tx : e \in st.done}
    ELSE {t \in st.rows : t.status # "pending"}

EmptyTxStore == [pending |-> {}, done |-> {}, rows |-> {}]

\* ---------------------------------- specification: add_transaction calls
TxIds == {"a", "b"}

Statuses == {"pending", "success", "failed", "expired"}

\* any caller stores any transaction; tstate is the transaction of the
\* last call (<<>> before the first)
AddTransaction(tx) ==
    /\ storeTx' = add_transaction(backend, storeTx, tx)
    /\ tstate' = <<tx>>
    /\ UNCHANGED <<cvars, storeProofs, pstate, sess>>

InitTxStore ==
    CInit /\ signed = {} /\ NoProofs /\ storeTx = EmptyTxStore /\ tstate = <<>>

NextTxStore ==
    \E id \in TxIds, st \in Statuses, io \in {"In", "Out"} :
        AddTransaction(Tx(id, "Cashu", st, io))

SpecTxStore == InitTxStore /\ [][NextTxStore]_vars

\* ------------------------------------------------------- store: proofs
\* A stored proof: its secret and the ts of ProofExtended (0 for None).
\* The unit is the same for every proof of the modelled keyset, the other
\* fields are determined by the secret.
ProofRow(secret, ts) == [secret |-> secret, ts |-> ts]

Secrets(tbl) == {p.secret : p \in tbl}

\* redb add_proofs: the table is a multimap mint -> JSON of the proof, so
\* a row is there once per distinct JSON
RedbAddProofs(tbl, rows, now) == tbl \cup rows

\* sqlite add_proofs: one insert per proof in one database transaction;
\* secret is the primary key, ctime is ts or the time of the call.  A
\* conflict fails the call and nothing of it is committed.
SqliteAddProofs(tbl, rows, now) ==
    IF Secrets(rows) \cap Secrets(tbl) # {} THEN tbl
    ELSE tbl \cup {ProofRow(p.secret, IF p.ts = 0 THEN now ELSE p.ts)
                      : p \in rows}

add_proofs(be, tbl, rows, now) ==
    IF be = "redb" THEN RedbAddProofs(tbl, rows, now)
    ELSE SqliteAddProofs(tbl, rows, now)

\* delete_proofs: redb removes the exact JSON, sqlite deletes by secret
delete_proofs(be, tbl, rows) ==
    IF be = "redb" THEN tbl \ rows
    ELSE {p \in tbl : p.secret \notin Secrets(rows)}

\* UnitedWallet::restore, "prevent duplicate store": the proofs whose secret
\* get_proofs did not return
retain_unknown(found, seen) == found \ seen

\* ------------------------------- specification: transactions of a wallet
\* One Lightning quote "q" (request_mint / mint_tokens), one token "tok"
\* the wallet sends (send_tokens, and receive_tokens when it is sent to
\* self) and one melt quote "m".  tstate holds what the mint and the
\* wallet's clock say:
\*   paid     the mint has seen the invoice of "q" paid
\*   issued   the mint has issued the tokens of "q"
\*   expired  Bolt11Invoice::is_expired() of the invoice of "q"
\*   spent    the proofs of "tok" are Spent at the mint
\*   melted   melt has been called for "m"
\*   sending  the id of the operation whose value-moving request (mint,
\*            swap, melt) is at the mint, "" when there is none
\*   found    what get_transaction returned to the running mint_tokens
\*   ret       how the last mint_tokens ended: "ok" or the error
InitTx ==
    /\ CInit /\ signed = {} /\ NoProofs
    /\ storeTx = EmptyTxStore
    /\ tstate = [paid |-> FALSE, issued |-> FALSE, expired |-> FALSE,
                 spent |-> FALSE, melted |-> FALSE, sending |-> "",
                 found |-> {}, ret |-> ""]

TxUnchanged == UNCHANGED <<cvars, storeProofs, pstate, sess>>

\* request_mint: a pending LN In row with the quote as id
RequestMint ==
    /\ get_transaction(backend, storeTx, "q") = {}
    /\ storeTx' = add_transaction(backend, storeTx,
                                  Tx("q", "LN", "pending", "In"))
    /\ UNCHANGED tstate /\ TxUnchanged

\* a mint_tokens that leaves the row alone on "invoice not paid"
mint_tokens_keeps_pending(be, st, found, reply, isExpired) ==
    IF reply = "ok" /\ found = {}
    THEN add_transaction(be, st, Tx("q", "LN", "success", "In"))
    ELSE st

\* the store after mint_tokens(hash = "q") read the row `found` (a set: the
\* row, or empty for None) and the mint answered `reply`:
\*   "ok"      the tokens are issued: the row becomes success, or a success
\*             row is synthesised
\*   "unpaid"  "invoice not paid": the row becomes expired when the local
\*             invoice is expired
\*   "error"   any other error
mint_tokens_store(be, st, found, reply, isExpired) ==
    IF reply = "ok"
    THEN IF found = {}
         THEN add_transaction(be, st, Tx("q", "LN", "success", "In"))
         ELSE LET tx == CHOOSE t \in found : TRUE
              IN IF tx.kind # "LN" THEN st
                 ELSE add_transaction(be, st, [tx EXCEPT !.status = "success"])
    ELSE IF reply = "unpaid" /\ found # {} /\ isExpired
    THEN LET tx == CHOOSE t \in found : TRUE
         IN add_transaction(be, st, [tx EXCEPT !.status = "expired"])
    ELSE st

\* Wallet::mint_token: one output is drawn; Ok commits, an error drops the
\* ManagerCounter
MintCounter(ok) ==
    LET c == count_n(Cur(1), 1)
    IN [mgr |-> [mgr EXCEPT ![1][Pos(1)] =
                    IF ok THEN commit_mem(c, hasMnemonic) ELSE cancel(c)],
        store |-> IF ok
                  THEN commit_store(backend, storeCounters, c, hasMnemonic)
                  ELSE storeCounters]

\* mint_tokens after Ok: add_proofs of the minted proof (the proof of "q")
mint_tokens_proofs(reply) ==
    IF reply = "ok"
    THEN add_proofs(backend, storeProofs, {ProofRow("q", 1)}, 1)
    ELSE storeProofs

\* what mint_tokens and check_pendings leave alone
MintUnchanged ==
    UNCHANGED <<backend, hasMnemonic, clock, current, ninst, lock, req,
                signed, rst, last, nops, crashed, restored, pstate, sess>>

\* what the mint may answer to a mint request for "q"
MintReplies == {IF tstate.issued THEN "error"
                ELSE IF tstate.paid THEN "ok" ELSE "unpaid", "error"}

\* mint_tokens called by the application: get_transaction, then
\* wallet.mint_token sends the mint request
MintTokensSend ==
    /\ tstate.sending = ""
    /\ tstate' = [tstate EXCEPT
                     !.sending = "q",
                     !.found = get_transaction(backend, storeTx, "q")]
    /\ UNCHANGED storeTx /\ TxUnchanged

\* mint_tokens: the mint answered
MintTokens(reply) ==
    /\ tstate.sending = "q"
    /\ reply \in MintReplies
    /\ storeTx' = mint_tokens_store(backend, storeTx, tstate.found, reply,
                                    tstate.expired)
    /\ storeProofs' = mint_tokens_proofs(reply)
    /\ mgr' = MintCounter(reply = "ok").mgr
    /\ storeCounters' = MintCounter(reply = "ok").store
    /\ tstate' = [tstate EXCEPT !.issued = @ \/ reply = "ok",
                                !.sending = "", !.found = {},
                                !.ret = reply]
    /\ MintUnchanged

\* send_tokens_full when the selected proofs do not sum to the amount (or
\* allow_skip_split is false): wallet.send sends the swap
SendTokensSwap ==
    /\ tstate.sending = ""
    /\ get_transaction(backend, storeTx, "tok") = {}
    /\ tstate' = [tstate EXCEPT !.sending = "tok"]
    /\ UNCHANGED storeTx /\ TxUnchanged

\* send_tokens: after the swap, or at once when the split is skipped, the
\* token leaves and a pending Cashu Out row is written
SendTokens ==
    /\ tstate.sending \in {"", "tok"}
    /\ get_transaction(backend, storeTx, "tok") = {}
    /\ storeTx' = add_transaction(backend, storeTx,
                                  Tx("tok", "Cashu", "pending", "Out"))
    /\ tstate' = [tstate EXCEPT !.sending = ""]
    /\ TxUnchanged

\* the swap of send_tokens or the melt request fails: the call returns the
\* error through `?` and writes nothing
RequestFails ==
    /\ tstate.sending \in {"tok", "m"}
    /\ tstate' = [tstate EXCEPT !.sending = ""]
    /\ UNCHANGED storeTx /\ TxUnchanged

\* receive_tokens of the token the wallet sent (send to self): the swap
\* spends its proofs, a success Cashu In row is written
ReceiveTokens ==
    /\ \E t \in TxRows(backend, storeTx) : t.id = "tok"
    /\ ~tstate.spent
    /\ tstate' = [tstate EXCEPT !.spent = TRUE]
    /\ storeTx' = add_transaction(backend, storeTx,
                                  Tx("tok", "Cashu", "success", "In"))
    /\ TxUnchanged

\* check_pendings: every pending Cashu row whose proofs are spent becomes
\* success, then mint_tokens runs for every pending LN row
CheckPendings(reply) ==
    LET pendings == PendingRows(backend, storeTx)
        cashu == {t \in pendings : t.kind = "Cashu"}
        st1 == IF cashu # {} /\ tstate.spent
               THEN add_transaction(backend, storeTx,
                        [(CHOOSE t \in cashu : TRUE) EXCEPT
                            !.status = "success"])
               ELSE storeTx
        ln == {t \in pendings : t.kind = "LN"}
    IN /\ pendings # {}
       /\ reply \in MintReplies
       /\ storeTx' = IF ln = {} THEN st1
                     ELSE mint_tokens_store(backend, st1,
                              get_transaction(backend, st1, "q"), reply,
                              tstate.expired)
       /\ storeProofs' = IF ln = {} THEN storeProofs
                         ELSE mint_tokens_proofs(reply)
       /\ mgr' = IF ln = {} THEN mgr ELSE MintCounter(reply = "ok").mgr
       /\ storeCounters' = IF ln = {} THEN storeCounters
                           ELSE MintCounter(reply = "ok").store
       /\ tstate' = [tstate EXCEPT
                        !.issued = @ \/ (ln # {} /\ reply = "ok"),
                        !.ret = IF ln = {} THEN @ ELSE reply]
       /\ MintUnchanged

\* melt: request_melt gave the quote, wallet.melt sends the melt request
MeltSend ==
    /\ tstate.sending = ""
    /\ ~tstate.melted
    /\ tstate' = [tstate EXCEPT !.melted = TRUE, !.sending = "m"]
    /\ UNCHANGED storeTx /\ TxUnchanged

\* melt: the row of the quote is written once the mint answered
Melt(paid) ==
    /\ tstate.sending = "m"
    /\ tstate' = [tstate EXCEPT !.sending = ""]
    /\ storeTx' = add_transaction(backend, storeTx,
                      Tx("m", "LN", IF paid THEN "success" ELSE "failed",
                         "Out"))
    /\ TxUnchanged

\* the world: the invoice is paid, the invoice expires, someone else
\* redeems the token
InvoicePaid ==
    /\ ~tstate.paid
    /\ tstate' = [tstate EXCEPT !.paid = TRUE]
    /\ UNCHANGED storeTx /\ TxUnchanged

InvoiceExpires ==
    /\ ~tstate.expired
    /\ tstate' = [tstate EXCEPT !.expired = TRUE]
    /\ UNCHANGED storeTx /\ TxUnchanged

TokenRedeemed ==
    /\ \E t \in TxRows(backend, storeTx) : t.id = "tok"
    /\ ~tstate.spent
    /\ tstate' = [tstate EXCEPT !.spent = TRUE]
    /\ UNCHANGED storeTx /\ TxUnchanged

NextTx ==
    \/ RequestMint
    \/ MintTokensSend
    \/ \E reply \in {"ok", "unpaid", "error"} : MintTokens(reply)
    \/ SendTokensSwap
    \/ SendTokens
    \/ RequestFails
    \/ ReceiveTokens
    \/ \E reply \in {"ok", "unpaid", "error"} : CheckPendings(reply)
    \/ MeltSend
    \/ \E paid \in BOOLEAN : Melt(paid)
    \/ InvoicePaid
    \/ InvoiceExpires
    \/ TokenRedeemed

SpecTx == InitTx /\ [][NextTx]_vars

\* ------------------------------------------ specification: proofs table
RTasks == {"r1", "r2"}

\* pstate:
\*   minted   secrets whose output the mint has signed
\*   unstored secrets of signed outputs whose request has not yet reached
\*            its add_proofs
\*   spent    secrets Spent at the mint
\*   pclock   next value of unixtime_ms
\*   runs     restores started
\*   rpc, found, seen   per restore task: where it is, the secrets
\*            Wallet::restore returned, the secrets get_proofs returned
InitProofs ==
    /\ CInit /\ signed = {} /\ NoTx
    /\ storeProofs = {}
    /\ pstate = [minted |-> {}, unstored |-> {}, spent |-> {},
                 pclock |-> 1, runs |-> 0,
                 rpc |-> [t \in RTasks |-> "idle"],
                 found |-> [t \in RTasks |-> {}],
                 seen |-> [t \in RTasks |-> {}]]

PUnchanged == UNCHANGED <<cvars, storeTx, tstate, sess>>

\* mint_tokens, receive_tokens, the keep part of send_tokens, the change of
\* melt: the network call of the request returns, the mint has signed a
\* fresh output
NewProofSigned ==
    LET s == Cardinality(pstate.minted) + 1
    IN /\ s <= MaxSecrets
       /\ pstate' = [pstate EXCEPT !.minted = @ \cup {s},
                                   !.unstored = @ \cup {s}]
       /\ UNCHANGED storeProofs /\ PUnchanged

\* the request goes on to its add_proofs: the proof is stored with ts = now
\* (into_extended_with_unit)
NewProofStored(s) ==
    /\ s \in pstate.unstored
    /\ storeProofs' = add_proofs(backend, storeProofs,
                                 {ProofRow(s, pstate.pclock)}, pstate.pclock)
    /\ pstate' = [pstate EXCEPT !.unstored = @ \ {s}, !.pclock = @ + 1]
    /\ PUnchanged

\* the answer of the mint is lost or unblinding fails: the wallet never
\* holds the proof
NewProofLost(s) ==
    /\ s \in pstate.unstored
    /\ pstate' = [pstate EXCEPT !.unstored = @ \ {s}]
    /\ UNCHANGED storeProofs /\ PUnchanged

\* send_tokens and melt delete the proofs they hand over; the mint sees
\* them spent now (melt, a swap) or later
SpendProof(p, spentNow) ==
    /\ p \in storeProofs
    /\ storeProofs' = delete_proofs(backend, storeProofs, {p})
    /\ pstate' = [pstate EXCEPT
                     !.spent = IF spentNow THEN @ \cup {p.secret} ELSE @]
    /\ PUnchanged

\* Wallet::restore returns the proofs the mint signed and does not report
\* Spent, ts None
RestoreScan(t) ==
    /\ pstate.rpc[t] = "idle"
    /\ pstate.runs < MaxRestoreRuns
    /\ pstate' = [pstate EXCEPT !.rpc[t] = "scanned",
                                !.runs = @ + 1,
                                !.found[t] = pstate.minted \ pstate.spent]
    /\ UNCHANGED storeProofs /\ PUnchanged

\* UnitedWallet::restore: nothing found, or get_proofs
RestoreRead(t) ==
    /\ pstate.rpc[t] = "scanned"
    /\ pstate' = [pstate EXCEPT
                     !.rpc[t] = IF pstate.found[t] = {} THEN "idle" ELSE "read",
                     !.seen[t] = IF pstate.found[t] = {} THEN {}
                                 ELSE Secrets(storeProofs)]
    /\ UNCHANGED storeProofs /\ PUnchanged

\* UnitedWallet::restore: retain the unknown proofs, add_proofs
RestoreWrite(t) ==
    LET new == retain_unknown(pstate.found[t], pstate.seen[t])
    IN /\ pstate.rpc[t] = "read"
       /\ storeProofs' = add_proofs(backend, storeProofs,
                                    {ProofRow(s, 0) : s \in new}, pstate.pclock)
       /\ pstate' = [pstate EXCEPT
                        !.rpc[t] = "idle", !.found[t] = {}, !.seen[t] = {},
                        !.pclock = @ + 1]
       /\ PUnchanged

NextProofs ==
    \/ NewProofSigned
    \/ \E s \in 1..MaxSecrets : NewProofStored(s)
    \/ \E s \in 1..MaxSecrets : NewProofLost(s)
    \/ \E p \in storeProofs, spentNow \in BOOLEAN : SpendProof(p, spentNow)
    \/ \E t \in RTasks : RestoreScan(t)
    \/ \E t \in RTasks : RestoreRead(t)
    \/ \E t \in RTasks : RestoreWrite(t)

SpecProofs == InitProofs /\ [][NextProofs]_vars

\* ------------------------ specification: a wallet with or without mnemonic
\* One task issues mint, swap and melt requests on a wallet that was set up
\* with or without a mnemonic; the store is empty or already holds a
\* record of the mnemonic (two indices used, signed by the mint).
InitWallet ==
    /\ backend \in Backends
    /\ hasMnemonic \in BOOLEAN
    /\ storeCounters \in {{}, {[NewRecord(Keysets[1].id, PK, 1)
                                    EXCEPT !.counter = 2]}}
    /\ signed = IF storeCounters = {} THEN {} ELSE 0..1
    /\ clock = 2
    /\ current = 1
    /\ ninst = 1
    /\ mgr = [k \in Insts |->
                 IF k = 1 THEN LoadManager(storeCounters, hasMnemonic, 1)
                 ELSE <<>>]
    /\ lock = [k \in Insts |-> "free"]
    /\ req = [r \in Req |-> IdleReq]
    /\ rst = IdleRst
    /\ last = NoLast
    /\ nops = 0
    /\ crashed = FALSE
    /\ restored = FALSE
    /\ sess = <<>>
    /\ NoProofs /\ NoTx

NextWallet ==
    \/ \E a \in Requests : Start("t1", a)
    \/ Acquire("t1")
    \/ Finish("t1")
    \/ Reconnect
    \/ Crash

SpecWallet == InitWallet /\ [][NextWallet]_vars

\* ------------------------------------- specification: the count session
\* The counter manager alone: one Manager (mgr[1]) built by Wallet::new from
\* the store, and one task that opens a session with start_count, calls
\* count, cancel and commit on it and drops it.  sess:
\*   keysets  the keysets the Wallet holds
\*   pc       "closed", or "open" while a ManagerCounter exists
\*   pos      the position in Manager.counters of the session's counter
\*   ret      what the last count() returned, -1 before the first
\*   prev     the last call: "new", "start", "nokeyset", "count", "cancel",
\*            "commit", "recommit" (a commit right after a commit that
\*            returned Ok), "commit_err", "drop"
\*   anchor   keyset id -> what the first count() after the last commit (or
\*            after the Manager was built) returned, -1 when there was none
\*   rolled   keyset id -> the counter was cancelled since its last count()
\*   recount  the last count() followed a cancel and an earlier count()
\*   n, loads calls of count() and rebuilds of the Manager so far
\*   unit     the argument of the last start_count of this Manager
KsIds == {1, 2, 3}

KsUnit(id) == IF id = 2 THEN "usd" ELSE "sat"

Ks(id) == [id |-> id, unit |-> KsUnit(id)]

\* the keyset lists the mint may publish (get_keys)
SessKeysets == {<<Ks(2)>>, <<Ks(1), Ks(2)>>, <<Ks(3), Ks(1)>>}

\* the unit argument of start_count: None or Some(unit)
Units == {"none", "sat", "usd"}

CURRENCY_UNIT_SAT == "sat"

\* unit.unwrap_or(CURRENCY_UNIT_SAT)
unwrap_or_sat(unit) == IF unit = "none" THEN CURRENCY_UNIT_SAT ELSE unit

\* a record the store may hold when the wallet starts: a keyset two indices
\* below the retirement bound
NearLimit == [NewRecord(1, PK, 1) EXCEPT !.counter = CounterLimit - 2]

\* Wallet::update_mnmonic: get_records only with a mnemonic, Manager::records
NewManager(tbl, mn, keysets, now) ==
    records(IF mn THEN get_counters(tbl, PK) ELSE <<>>, keysets, now)

NewSess(keysets) ==
    [keysets |-> keysets, pc |-> "closed", pos |-> 0, ret |-> -1,
     prev |-> "new", anchor |-> [k \in KsIds |-> -1],
     rolled |-> [k \in KsIds |-> FALSE], recount |-> FALSE,
     n |-> 0, loads |-> 0, unit |-> "-"]

InitSession ==
    /\ backend \in Backends
    /\ hasMnemonic \in BOOLEAN
    /\ storeCounters \in (IF hasMnemonic THEN {{}, {NearLimit}} ELSE {{}})
    /\ clock = 3
    /\ \E ks \in SessKeysets :
          /\ sess = NewSess(ks)
          /\ mgr = [k \in Insts |->
                       IF k = 1
                       THEN NewManager(storeCounters, hasMnemonic, ks, 2)
                       ELSE <<>>]
    /\ current = 1 /\ ninst = 1
    /\ lock = [k \in Insts |-> "free"]
    /\ req = [r \in Req |-> IdleReq]
    /\ rst = IdleRst /\ last = NoLast /\ nops = 0
    /\ crashed = FALSE /\ restored = FALSE
    /\ signed = {} /\ NoProofs /\ NoTx

SUnchanged ==
    UNCHANGED <<backend, hasMnemonic, current, ninst, lock, req, signed, rst,
                last, nops, crashed, restored, storeProofs, pstate, storeTx,
                tstate>>

\* the counter of the open session and the id of its keyset
SessCounter == mgr[1][sess.pos]

SessKs == SessCounter.record.keysetid

\* ManagerGuard::start_count / Manager::start_count(unit): the session
\* borrows the first counter whose keyset has the unit, or the call fails
SessStart(unit) ==
    LET pos == start_count(mgr[1], unwrap_or_sat(unit), sess.keysets)
    IN /\ sess.pc = "closed"
       /\ sess' = IF pos = 0
                  THEN [sess EXCEPT !.prev = "nokeyset", !.unit = unit]
                  ELSE [sess EXCEPT !.pc = "open", !.pos = pos,
                                    !.prev = "start", !.unit = unit]
       /\ UNCHANGED <<mgr, storeCounters, clock>> /\ SUnchanged

\* ManagerCounter::count: returns the cursor and advances it; the callers
\* (split_amount2, split_blanks) pass the index to generate
SessCount ==
    /\ sess.pc = "open"
    /\ sess.n < MaxCounts
    /\ mgr' = [mgr EXCEPT ![1][sess.pos] = count_n(@, 1)]
    /\ sess' = [sess EXCEPT
                   !.ret = SessCounter.state,
                   !.anchor[SessKs] = IF @ = -1 THEN SessCounter.state ELSE @,
                   !.recount = sess.rolled[SessKs] /\ sess.anchor[SessKs] >= 0,
                   !.rolled[SessKs] = FALSE,
                   !.prev = "count",
                   !.n = @ + 1]
    /\ UNCHANGED <<storeCounters, clock>> /\ SUnchanged

\* ManagerCounter::cancel
SessCancel ==
    /\ sess.pc = "open"
    /\ mgr' = [mgr EXCEPT ![1][sess.pos] = cancel(@)]
    /\ sess' = [sess EXCEPT !.rolled[SessKs] = TRUE, !.prev = "cancel"]
    /\ UNCHANGED <<storeCounters, clock>> /\ SUnchanged

\* ManagerCounter::commit: record.counter = state and the pubkey filled in,
\* then add_record when there is a mnemonic; the store call may fail
SessCommit(storeOk) ==
    /\ sess.pc = "open"
    /\ storeOk \/ hasMnemonic
    /\ mgr' = [mgr EXCEPT ![1][sess.pos] = commit_mem(@, hasMnemonic)]
    /\ storeCounters' =
          IF storeOk
          THEN commit_store(backend, storeCounters, SessCounter, hasMnemonic)
          ELSE storeCounters
    /\ sess' = [sess EXCEPT
                   !.anchor[SessKs] = -1,
                   !.rolled[SessKs] = FALSE,
                   !.prev = IF ~storeOk THEN "commit_err"
                            ELSE IF sess.prev \in {"commit", "recommit"}
                            THEN "recommit" ELSE "commit"]
    /\ UNCHANGED clock /\ SUnchanged

\* Drop for ManagerCounter: cancel, the borrow ends
SessDrop ==
    /\ sess.pc = "open"
    /\ mgr' = [mgr EXCEPT ![1][sess.pos] = cancel(@)]
    /\ sess' = [sess EXCEPT !.pc = "closed", !.pos = 0, !.ret = -1,
                            !.unit = "-",
                            !.rolled[SessKs] = TRUE, !.prev = "drop"]
    /\ UNCHANGED <<storeCounters, clock>> /\ SUnchanged

\* the process restarts (or update_mnmonic runs): Wallet::new fetches the
\* keysets and builds the Manager from the store
SessReload(ks) ==
    /\ sess.pc = "closed"
    /\ sess.loads < MaxLoads
    /\ mgr' = [mgr EXCEPT
                  ![1] = NewManager(storeCounters, hasMnemonic, ks, clock)]
    /\ clock' = clock + 1
    /\ sess' = [NewSess(ks) EXCEPT !.n = sess.n, !.loads = sess.loads + 1]
    /\ UNCHANGED storeCounters /\ SUnchanged

NextSession ==
    \/ \E unit \in Units : SessStart(unit)
    \/ SessCount
    \/ SessCancel
    \/ \E storeOk \in BOOLEAN : SessCommit(storeOk)
    \/ SessDrop
    \/ \E ks \in SessKeysets : SessReload(ks)

SpecSession == InitSession /\ [][NextSession]_vars

\* ---------------------------------- specification: the counters table
\* Any caller passes any record of the mnemonic to add_counter: a commit
\* (the record keeps the ts of its creation) or the end of a restore (a
\* record made by Record::new, with a new ts).  sess is the record of the
\* last call.
CounterRecords ==
    {[NewRecord(id, PK, ts) EXCEPT !.counter = c] :
        id \in {1, 2}, ts \in {1, 2}, c \in 0..MaxCounter}

AddCounter(record) ==
    /\ storeCounters' = add_counter(backend, storeCounters, record)
    /\ sess' = record
    /\ UNCHANGED <<cvars_but_store, storeProofs, pstate, storeTx, tstate>>

InitCounterStore == CInit /\ signed = {} /\ NoProofs /\ NoTx

NextCounterStore == \E record \in CounterRecords : AddCounter(record)

SpecCounterStore == InitCounterStore /\ [][NextCounterStore]_vars

\* -------------------------- specification: send_tokens, receive_tokens
\* One mint and one unit.  A stored proof is ProofRow(secret, ts) with the
\* secret <<id, amount>>: the amount travels with the secret, the other
\* fields of the proof are determined by it.  A token is the sequence of
\* the secrets of its proofs.
\* pstate:
\*   spent    secrets Spent at the mint
\*   issued   number of secrets the mint has signed so far
\*   pclock   next value of unixtime_ms
\*   token    the token the last successful send_tokens returned
\*   last     the last call: op, err ("" for Ok), A the amount asked for or
\*            the sum of the token, B the balance before the call, ret the
\*            amount receive_tokens returned, req whether a request went
\*            to the mint, own whether the token received was pstate.token
MaxIssued == 5

MaxSend == 4

MaxExt == 3

PAmount(p) == p.secret[2]

SeqSet(s) == {s[i] : i \in DOMAIN s}

\* ProofsHelper::sum of a slice of proofs
RECURSIVE SumRows(_)
SumRows(s) == IF s = <<>> THEN 0 ELSE PAmount(Head(s)) + SumRows(Tail(s))

\* the sum of the proofs of a token
RECURSIVE SumSecrets(_)
SumSecrets(s) == IF s = <<>> THEN 0 ELSE Head(s)[2] + SumSecrets(Tail(s))

\* get_proofs_limit_unit: the rows ordered by ts (redb sort_by ts, sqlite
\* order by ctime); the order of rows of equal ts is not fixed
RECURSIVE get_proofs_limit_unit(_)
get_proofs_limit_unit(tbl) ==
    IF tbl = {} THEN {<<>>}
    ELSE LET firsts == {p \in tbl : \A q \in tbl : p.ts <= q.ts}
         IN UNION {{<<p>> \o t : t \in get_proofs_limit_unit(tbl \ {p})}
                      : p \in firsts}

\* get_balance_limit_unit: the sum of the rows get_proofs_limit_unit returns
RECURSIVE Balance(_)
Balance(tbl) ==
    IF tbl = {} THEN 0
    ELSE LET p == CHOOSE x \in tbl : TRUE
         IN PAmount(p) + Balance(tbl \ {p})

\* a selection that reports a shortfall as the error of a zero amount
select_reports_zero(amount, ps) ==
    [err |-> "amount0", ps |-> ps, take |-> 0]

\* a selection that takes the whole list whenever it covers the amount
select_takes_all(amount, ps) ==
    IF amount = 0 THEN [err |-> "amount0", ps |-> ps, take |-> 0]
    ELSE IF SumRows(ps) < amount
    THEN [err |-> "insufficient", ps |-> ps, take |-> 0]
    ELSE [err |-> "", ps |-> ps, take |-> Len(ps) - 1]

\* select_send_proofs: Err for amount 0; a proof of exactly the amount is
\* swapped to the front (take 0); otherwise the shortest prefix whose sum
\* reaches the amount, insufficant_funds when the whole list falls short.
\* take is the index of the last proof taken, counted from 0.
select_send_proofs(amount, ps) ==
    IF amount = 0 THEN [err |-> "amount0", ps |-> ps, take |-> 0]
    ELSE IF \E i \in DOMAIN ps : PAmount(ps[i]) = amount
    THEN LET p == CHOOSE i \in DOMAIN ps :
                     /\ PAmount(ps[i]) = amount
                     /\ \A j \in 1..(i - 1) : PAmount(ps[j]) # amount
         IN [err |-> "", ps |-> [ps EXCEPT ![1] = ps[p], ![p] = ps[1]],
             take |-> 0]
    ELSE LET hits == {i \in DOMAIN ps : SumRows(SubSeq(ps, 1, i)) >= amount}
         IN IF hits = {}
            THEN [err |-> "insufficient", ps |-> ps, take |-> 0]
            ELSE [err |-> "", ps |-> ps,
                  take |-> (CHOOSE i \in hits : \A j \in hits : i <= j) - 1]

\* an honest mint refuses a swap whose inputs hold a spent secret or the
\* same secret twice
MintRejects(inputs, spent) ==
    \/ \E i \in DOMAIN inputs : inputs[i] \in spent
    \/ \E i, j \in DOMAIN inputs : i # j /\ inputs[i] = inputs[j]

\* process_swap_response and into_extended_with_unit: one proof per planned
\* output, in the order of the outputs, ts = now
NewProofs(amounts, issued, now) ==
    [i \in DOMAIN amounts |-> ProofRow(<<issued + i, amounts[i]>>, now)]

\* try_to_call_swap and the end of the borrow: n outputs are drawn; with a
\* mnemonic an Ok answer commits, otherwise the ManagerCounter is dropped
SwapCounter(n, ok) ==
    LET c == count_n(Cur(1), n)
    IN [mgr |-> [mgr EXCEPT ![1][Pos(1)] =
                    IF ok /\ hasMnemonic THEN commit_mem(c, hasMnemonic)
                    ELSE cancel(c)],
        store |-> IF ok /\ hasMnemonic
                  THEN commit_store(backend, storeCounters, c, hasMnemonic)
                  ELSE storeCounters]

Called(op, err, a, b, ret, rq, own) ==
    [op |-> op, err |-> err, A |-> a, B |-> b, ret |-> ret, req |-> rq,
     own |-> own]

\* the stores when the wallet is opened: nothing, or (redb) one proof of
\* amount 2 stored twice under two ts, as a restore that ran between the
\* answer of the mint and the add_proofs of mint_tokens leaves it
\* (SpecProofs)
InitSend ==
    /\ backend \in Backends
    /\ hasMnemonic \in BOOLEAN
    /\ clock = 2 /\ storeCounters = {}
    /\ current = 1 /\ ninst = 1
    /\ mgr = [k \in Insts |-> IF k = 1 THEN LoadManager({}, hasMnemonic, 1)
                              ELSE <<>>]
    /\ lock = [k \in Insts |-> "free"]
    /\ req = [r \in Req |-> IdleReq]
    /\ rst = IdleRst /\ last = NoLast /\ nops = 0
    /\ crashed = FALSE /\ restored = FALSE
    /\ signed = {} /\ sess = <<>>
    /\ storeTx = EmptyTxStore /\ tstate = <<>>
    /\ \E twice \in (IF backend = "redb" THEN BOOLEAN ELSE {FALSE}) :
          /\ storeProofs = IF twice
                           THEN {ProofRow(<<1, 2>>, 1), ProofRow(<<1, 2>>, 2)}
                           ELSE {}
          /\ pstate = [spent |-> {}, issued |-> IF twice THEN 1 ELSE 0,
                       pclock |-> 3, token |-> <<>>,
                       last |-> Called("none", "", 0, 0, 0, FALSE, FALSE)]

SendUnchanged ==
    UNCHANGED <<backend, hasMnemonic, clock, current, ninst, lock, req,
                signed, rst, last, nops, crashed, restored, tstate, sess>>

\* UnitedWallet::send_tokens(amount): send_tokens_full with allow_skip_split
SendTokensFull(amount) ==
    \E ps \in get_proofs_limit_unit(storeProofs) :
       LET B == Balance(storeProofs)
           sel == select_send_proofs(amount, ps)
           pss == SubSeq(sel.ps, 1, sel.take + 1)
           S == SumRows(pss)
           inputs == [i \in DOMAIN pss |-> pss[i].secret]
           plan == split_amount2(S - amount, amount, 0)
           n == Len(plan.amounts)
           outs == NewProofs(plan.amounts, pstate.issued, pstate.pclock)
           keep == SubSeq(outs, 1, plan.send_idx_start)
           sent == SubSeq(outs, plan.send_idx_start + 1, Len(outs))
           ok == ~MintRejects(inputs, pstate.spent)
       IN /\ SendUnchanged
          /\ IF sel.err # ""
             THEN \* `?` on select_send_proofs
                  /\ pstate' = [pstate EXCEPT !.last =
                        Called("send", sel.err, amount, B, 0, FALSE, FALSE)]
                  /\ UNCHANGED <<storeProofs, storeTx, mgr, storeCounters>>
             ELSE IF S = amount
             THEN \* the split is skipped: the selected proofs are the token
                  LET token == inputs
                  IN /\ storeProofs' =
                           delete_proofs(backend,
                               add_proofs(backend, storeProofs, {},
                                          pstate.pclock),
                               SeqSet(pss))
                     /\ storeTx' = add_transaction(backend, storeTx,
                                      Tx(token, "Cashu", "pending", "Out"))
                     /\ pstate' = [pstate EXCEPT
                           !.token = token, !.pclock = @ + 1,
                           !.last = Called("send", "", amount, B, 0, FALSE,
                                           FALSE)]
                     /\ UNCHANGED <<mgr, storeCounters>>
             ELSE \* Wallet::send: the selected proofs are swapped
                  /\ pstate.issued + n <= MaxIssued
                  /\ mgr' = SwapCounter(n, ok).mgr
                  /\ storeCounters' = SwapCounter(n, ok).store
                  /\ IF ~ok
                     THEN /\ pstate' = [pstate EXCEPT !.last =
                                Called("send", "mint", amount, B, 0, TRUE,
                                       FALSE)]
                          /\ UNCHANGED <<storeProofs, storeTx>>
                     ELSE LET token == [i \in DOMAIN sent |-> sent[i].secret]
                          IN /\ storeProofs' =
                                   delete_proofs(backend,
                                       add_proofs(backend, storeProofs,
                                                  SeqSet(keep), pstate.pclock),
                                       SeqSet(pss))
                             /\ storeTx' = add_transaction(backend, storeTx,
                                      Tx(token, "Cashu", "pending", "Out"))
                             /\ pstate' = [pstate EXCEPT
                                   !.spent = @ \cup SeqSet(inputs),
                                   !.issued = @ + n,
                                   !.token = token, !.pclock = @ + 1,
                                   !.last = Called("send", "", amount, B, 0,
                                                   TRUE, FALSE)]

\* UnitedWallet::receive_tokens of a token of one mint: the proofs are
\* swapped for new ones, which are stored, and a success Cashu In row is
\* written; the call returns the sum of the token
ReceiveTokensFull(token, own, ext) ==
    LET B == Balance(storeProofs)
        a == SumSecrets(token)
        plan == split_amount2(a, 0, 0)
        n == Len(plan.amounts)
        outs == NewProofs(plan.amounts, pstate.issued + ext, pstate.pclock)
        ok == ~MintRejects(token, pstate.spent)
    IN /\ SendUnchanged
       /\ pstate.issued + ext + n <= MaxIssued
       /\ mgr' = SwapCounter(n, ok).mgr
       /\ storeCounters' = SwapCounter(n, ok).store
       /\ IF ~ok
          THEN /\ pstate' = [pstate EXCEPT
                     !.token = IF own THEN <<>> ELSE @,
                     !.last = Called("receive", "mint", a, B, 0, TRUE, own)]
               /\ UNCHANGED <<storeProofs, storeTx>>
          ELSE /\ storeProofs' = add_proofs(backend, storeProofs,
                                            SeqSet(outs), pstate.pclock)
               /\ storeTx' = add_transaction(backend, storeTx,
                                  Tx(token, "Cashu", "success", "In"))
               /\ pstate' = [pstate EXCEPT
                     !.spent = @ \cup SeqSet(token),
                     !.issued = @ + ext + n,
                     !.token = IF own THEN <<>> ELSE @,
                     !.pclock = @ + 1,
                     !.last = Called("receive", "", a, B, a, TRUE, own)]

\* the wallet receives the token it sent
ReceiveOwn ==
    /\ pstate.token # <<>>
    /\ ReceiveTokensFull(pstate.token, TRUE, 0)

\* the wallet receives a token of one proof the mint issued to someone else
ReceiveExternal(amount) ==
    ReceiveTokensFull(<< <<pstate.issued + 1, amount>> >>, FALSE, 1)

NextSend ==
    \/ \E amount \in 0..MaxSend : SendTokensFull(amount)
    \/ ReceiveOwn
    \/ \E amount \in 1..MaxExt : ReceiveExternal(amount)

SpecSend == InitSend /\ [][NextSend]_vars

\* ---------------------------------------------- specification: melt
\* UnitedWallet::melt on the store of SpecSend, step by step between its
\* requests to the mint; the proofs of the store are received before the
\* first call.  pstate has the fields of SpecSend and m, the
\* melt call:
\*   pc       "idle", or the request the call waits for: "quote" (melt
\*            quote), "swap" (Wallet::send), "melt" (Wallet::melt)
\*   inv, arg the invoice and the amount argument of the last call
\*   amount, fee, quote   the invoice amount in sat, fee_reserve, quote id
\*   sel      the stored proofs selected; sent  the proofs sent to melt
\*   n        calls that got a quote
\*   err      how the last call ended ("" for Ok or not ended)
\*   answered, paid, change   the answer of the mint to the melt request
\*   bal0     the stored balance when the call was made
MaxMelts == 1

MaxFee == 1

\* the invoices a caller may pass: msat is amount_milli_satoshis (-1 for
\* an invoice without amount), expired is is_expired() at the call
Invoices ==
    {[msat |-> ms, expired |-> e] : ms \in {-1, 500, 1000, 2000},
                                    e \in BOOLEAN}

\* the amount argument: 0 for None
MeltArgs == 0..2

\* amount_msats / 1000 + (amount_msats % 1000 > 0) as u64
amount_in_invoice(msat) ==
    (msat \div 1000) + (IF msat % 1000 > 0 THEN 1 ELSE 0)

\* checks that do not look at the expiry of the invoice
melt_check_no_expiry(inv, arg) ==
    IF inv.msat = -1 THEN "invoice has no amount."
    ELSE IF arg # 0 /\ arg # amount_in_invoice(inv.msat)
    THEN "amount unmatch"
    ELSE ""

\* the checks of melt before request_melt: the error, "" when it goes on
melt_check(inv, arg) ==
    IF inv.expired THEN "Invoice expired"
    ELSE IF inv.msat = -1 THEN "invoice has no amount."
    ELSE IF arg # 0 /\ arg # amount_in_invoice(inv.msat)
    THEN "amount unmatch"
    ELSE ""

\* the id of the n-th quote.  Transaction ids are strings; the model
\* writes a quote id in the shape of a token id, with 0 for no secret, so
\* that the two kinds of id compare.
QuoteId(n) == << <<0, n>> >>

IdleMelt ==
    [pc |-> "idle", inv |-> <<>>, arg |-> 0, amount |-> 0, fee |-> 0,
     quote |-> QuoteId(0), sel |-> <<>>, sent |-> <<>>, n |-> 0, err |-> "",
     answered |-> FALSE, paid |-> FALSE, change |-> <<>>, bal0 |-> 0]

InitMelt ==
    /\ backend \in Backends
    /\ hasMnemonic \in BOOLEAN
    /\ clock = 2 /\ storeCounters = {}
    /\ current = 1 /\ ninst = 1
    /\ mgr = [k \in Insts |-> IF k = 1 THEN LoadManager({}, hasMnemonic, 1)
                              ELSE <<>>]
    /\ lock = [k \in Insts |-> "free"]
    /\ req = [r \in Req |-> IdleReq]
    /\ rst = IdleRst /\ last = NoLast /\ nops = 0
    /\ crashed = FALSE /\ restored = FALSE
    /\ signed = {} /\ sess = <<>>
    /\ storeTx = EmptyTxStore /\ tstate = <<>>
    /\ storeProofs = {}
    /\ pstate = [spent |-> {}, issued |-> 0, pclock |-> 3, token |-> <<>>,
                 last |-> Called("none", "", 0, 0, 0, FALSE, FALSE),
                 m |-> IdleMelt]

\* the call returns: err is "" for Ok
MeltEnds(m, err) == [m EXCEPT !.pc = "idle", !.err = err]

\* melt(invoice, amount): the local checks, then request_melt is sent
MeltStart(inv, arg) ==
    LET m == pstate.m
        err == melt_check(inv, arg)
        called == [IdleMelt EXCEPT !.inv = inv, !.arg = arg, !.n = m.n,
                                   !.bal0 = Balance(storeProofs)]
    IN /\ m.pc = "idle"
       /\ m.n < MaxMelts
       /\ pstate' = [pstate EXCEPT !.m =
             IF err # "" THEN MeltEnds(called, err)
             ELSE [called EXCEPT !.pc = "quote",
                                 !.amount = amount_in_invoice(inv.msat)]]
       /\ UNCHANGED <<storeProofs, storeTx, mgr, storeCounters>>
       /\ SendUnchanged

\* the quote arrives: the proofs are selected for amount + fee_reserve; a
\* selection above it is swapped first, otherwise the melt request is sent
MeltQuote(fee) ==
    \E ps \in get_proofs_limit_unit(storeProofs) :
       LET m == [pstate.m EXCEPT !.fee = fee, !.n = @ + 1,
                                 !.quote = QuoteId(pstate.m.n + 1)]
           sel == select_send_proofs(m.amount + fee, ps)
           pss == SubSeq(sel.ps, 1, sel.take + 1)
       IN /\ pstate.m.pc = "quote"
          /\ pstate' = [pstate EXCEPT !.m =
                IF sel.err # "" THEN MeltEnds(m, sel.err)
                ELSE IF SumRows(pss) > m.amount + fee
                THEN [m EXCEPT !.pc = "swap", !.sel = pss]
                ELSE [m EXCEPT !.pc = "melt", !.sel = pss, !.sent = pss]]
          /\ UNCHANGED <<storeProofs, storeTx, mgr, storeCounters>>
          /\ SendUnchanged

\* request_melt fails
MeltQuoteFails ==
    /\ pstate.m.pc = "quote"
    /\ pstate' = [pstate EXCEPT !.m = MeltEnds([@ EXCEPT !.n = @ + 1], "net")]
    /\ UNCHANGED <<storeProofs, storeTx, mgr, storeCounters>>
    /\ SendUnchanged

\* a melt that leaves the selection in the store after its swap
melt_swap_keeps_selected(be, tbl, outs, sel, now) ==
    add_proofs(be, tbl, outs, now)

\* melt after Wallet::send returned Ok: add_proofs(psnew.proofs), then
\* delete_proofs(ps)
melt_swap_store(be, tbl, outs, sel, now) ==
    delete_proofs(be, add_proofs(be, tbl, outs, now), sel)

\* Wallet::send of the selection returns: all new proofs are stored, the
\* selection is deleted, the send part goes into the melt request
MeltSwap(netOk) ==
    LET m == pstate.m
        awf == m.amount + m.fee
        inputs == [i \in DOMAIN m.sel |-> m.sel[i].secret]
        plan == split_amount2(SumRows(m.sel) - awf, awf, 0)
        n == Len(plan.amounts)
        outs == NewProofs(plan.amounts, pstate.issued, pstate.pclock)
        ok == netOk /\ ~MintRejects(inputs, pstate.spent)
    IN /\ m.pc = "swap"
       /\ pstate.issued + n <= MaxIssued
       /\ mgr' = SwapCounter(n, ok).mgr
       /\ storeCounters' = SwapCounter(n, ok).store
       /\ IF ~ok
          THEN /\ pstate' = [pstate EXCEPT !.m = MeltEnds(m, "swap")]
               /\ UNCHANGED storeProofs
          ELSE /\ storeProofs' =
                     melt_swap_store(backend, storeProofs, SeqSet(outs),
                                     SeqSet(m.sel), pstate.pclock)
               /\ pstate' = [pstate EXCEPT
                     !.spent = @ \cup SeqSet(inputs),
                     !.issued = @ + n,
                     !.pclock = @ + 1,
                     !.m = [m EXCEPT !.pc = "melt",
                               !.sent = SubSeq(outs, plan.send_idx_start + 1,
                                               Len(outs))]]
       /\ UNCHANGED storeTx
       /\ SendUnchanged

\* Wallet::melt: the blank outputs are drawn; Ok commits, an error drops
\* the ManagerCounter
MeltCounter(n, ok) ==
    LET c == count_n(Cur(1), n)
    IN [mgr |-> [mgr EXCEPT ![1][Pos(1)] =
                    IF ok THEN commit_mem(c, hasMnemonic) ELSE cancel(c)],
        store |-> IF ok
                  THEN commit_store(backend, storeCounters, c, hasMnemonic)
                  ELSE storeCounters]

\* the mint answers the melt request with paid and change (amounts, at
\* most one per blank output).  process_swap_response of the change may
\* fail, and then Wallet::melt and melt return the error; otherwise the
\* change is stored, the sent proofs are deleted when paid, and the
\* Lightning out row of the quote is written.
MeltReply(paid, ch, unblindOk) ==
    LET m == pstate.m
        inputs == [i \in DOMAIN m.sent |-> m.sent[i].secret]
        change == NewProofs(ch, pstate.issued, pstate.pclock)
        ok == unblindOk \/ ch = <<>>
        withChange == add_proofs(backend, storeProofs, SeqSet(change),
                                 pstate.pclock)
        ans == [m EXCEPT !.answered = TRUE, !.paid = paid, !.change = change]
    IN /\ m.pc = "melt"
       /\ ~MintRejects(inputs, pstate.spent)
       /\ Len(ch) <= split_blank_count(m.fee)
       /\ pstate.issued + Len(ch) <= MaxIssued
       /\ mgr' = MeltCounter(split_blank_count(m.fee), ok).mgr
       /\ storeCounters' = MeltCounter(split_blank_count(m.fee), ok).store
       /\ storeProofs' =
             IF ~ok THEN storeProofs
             ELSE IF paid THEN delete_proofs(backend, withChange,
                                             SeqSet(m.sent))
             ELSE withChange
       /\ storeTx' =
             IF ~ok THEN storeTx
             ELSE add_transaction(backend, storeTx,
                      Tx(m.quote, "LN",
                         IF paid THEN "success" ELSE "failed", "Out"))
       /\ pstate' = [pstate EXCEPT
             !.spent = IF paid THEN @ \cup SeqSet(inputs) ELSE @,
             !.issued = @ + Len(ch),
             !.pclock = @ + 1,
             !.m = MeltEnds(ans, IF ok THEN "" ELSE "unblind")]
       /\ SendUnchanged

\* the melt request fails: refused by the mint or lost
MeltRequestFails ==
    /\ pstate.m.pc = "melt"
    /\ mgr' = MeltCounter(split_blank_count(pstate.m.fee), FALSE).mgr
    /\ storeCounters' = storeCounters
    /\ pstate' = [pstate EXCEPT !.m = MeltEnds(@, "net")]
    /\ UNCHANGED <<storeProofs, storeTx>>
    /\ SendUnchanged

NextMelt ==
    \/ \E inv \in Invoices, arg \in MeltArgs : MeltStart(inv, arg)
    \/ \E fee \in 0..MaxFee : MeltQuote(fee)
    \/ MeltQuoteFails
    \/ \E netOk \in BOOLEAN : MeltSwap(netOk)
    \/ \E paid \in BOOLEAN, ch \in {<<>>, <<1>>}, unblindOk \in BOOLEAN :
          MeltReply(paid, ch, unblindOk)
    \/ MeltRequestFails
    \/ pstate.m = IdleMelt /\ \E amount \in 1..MaxExt : ReceiveExternal(amount)

SpecMelt == InitMelt /\ [][NextMelt]_vars

\* ------------------------------------ specification: select_send_proofs
\* The function applied to one input: a list of up to MaxLen proofs with
\* amounts 1..MaxAmt, in the order get_proofs_limit_unit returned them, and
\* an amount 0..MaxSend.  pstate holds the input and, once called, the
\* result.
MaxLen == 3

MaxAmt == 3

\* the proof lists of length n
ProofLists(n) ==
    {[i \in 1..n |-> ProofRow(<<i, f[i]>>, i)] : f \in [1..n -> 1..MaxAmt]}

InitSelect ==
    /\ CInit /\ signed = {} /\ NoTx
    /\ storeProofs = {}
    /\ \E n \in 0..MaxLen : \E ps \in ProofLists(n) :
       \E amount \in 0..MaxSend :
          pstate = [ps |-> ps, amount |-> amount, done |-> FALSE,
                    res |-> [err |-> "", ps |-> <<>>, take |-> 0]]

SelectSendProofs ==
    /\ ~pstate.done
    /\ pstate' = [pstate EXCEPT
                     !.done = TRUE,
                     !.res = select_send_proofs(pstate.amount, pstate.ps)]
    /\ UNCHANGED <<cvars, storeProofs, storeTx, tstate, sess>>

NextSelect == SelectSendProofs

SpecSelect == InitSelect /\ [][NextSelect]_vars

\* ---------------------------------------- specification: check_pendings
\* check_pendings over the pending rows of one mint: Cashu Out rows c1..cn
\* whose tokens hold the proofs <<i, 1>>, <<i, 2>>, .. and at most one LN In
\* row "q".
MaxTxs == 3

MaxTok == 2

\* batch_size, scaled down
CheckBatch == 2

CashuId(i) == <<"c1", "c2", "c3", "c4", "c5">>[i]

\* the states the mint reports of the proofs of one token
TokStates(n) ==
    UNION {[1..k -> {"Spent", "Unspent"}] : k \in 1..n}

\* the lists of at most n tokens
RECURSIVE TokLists(_)
TokLists(n) ==
    IF n = 0 THEN {<<>>}
    ELSE LET shorter == TokLists(n - 1)
         IN shorter \cup {Append(l, t) : l \in {x \in shorter : Len(x) = n - 1},
                                         t \in TokStates(MaxTok)}

RECURSIVE SumSeq(_)
SumSeq(s) == IF s = <<>> THEN 0 ELSE Head(s) + SumSeq(Tail(s))

\* the proofs of the token of transaction i, as pushed to ps
TokProofs(toks, i) == [j \in 1..Len(toks[i]) |-> <<i, j>>]

\* the mint's check_proofs: one state per proof, in the order asked
check_proofs(toks, ps) == [k \in 1..Len(ps) |-> toks[ps[k][1]][ps[k][2]]]

\* the states of the first token of the batch, whichever token is asked
pending_first_slice(states, tokens, idx) == SubSeq(states, 1, tokens[1])

\* &state.states[offset..offset + *token] of the idx-th token of a batch
pending_slice(states, tokens, idx) ==
    LET offset == SumSeq(SubSeq(tokens, 1, idx - 1))
    IN SubSeq(states, offset + 1, offset + tokens[idx])

\* is_spent of the idx-th token of a batch
pending_is_spent(states, tokens, idx) ==
    \E k \in DOMAIN pending_slice(states, tokens, idx) :
        pending_slice(states, tokens, idx)[k] = "Spent"

\* the store after the first n tokens of a batch that ended at transaction
\* i were handled: every spent one is stored as success
RECURSIVE pending_flush(_, _, _, _, _)
pending_flush(st, states, tokens, i, n) ==
    IF n = 0 THEN st
    ELSE LET before == pending_flush(st, states, tokens, i, n - 1)
             txi == i - Len(tokens) + n
         IN IF pending_is_spent(states, tokens, n)
            THEN add_transaction(backend, before,
                     Tx(CashuId(txi), "Cashu", "success", "Out"))
            ELSE before

\* the initial store: the pending rows of the transactions
RECURSIVE PendingStore(_, _, _)
PendingStore(be, n, ln) ==
    IF n = 0
    THEN IF ln THEN add_transaction(be, EmptyTxStore,
                                    Tx("q", "LN", "pending", "In"))
         ELSE EmptyTxStore
    ELSE add_transaction(be, PendingStore(be, n - 1, ln),
                         Tx(CashuId(n), "Cashu", "pending", "Out"))

\* tstate:
\*   toks     per Cashu transaction, the states the mint reports of its proofs
\*   expired  the invoice of "q" is locally expired
\*   pc       "idle", "cashu" (the loop over the Cashu rows), "ln", "ret",
\*            "done"
\*   i        the Cashu row the loop is at
\*   ps, tokens   the proofs and the per-transaction proof counts of the
\*            batch being collected
\*   txc, ln  the Cashu rows and the LN rows check_pendings read
\*   update_count, pendings_count   the locals of the same name
\*   ret      the returned pair, <<>> before the return
\*   failed   check_pendings returned an error
InitPendings ==
    /\ CInit /\ signed = {} /\ NoProofs
    /\ \E toks \in TokLists(MaxTxs), ln \in BOOLEAN, expired \in BOOLEAN :
          /\ ln \/ ~expired
          /\ storeTx = PendingStore(backend, Len(toks), ln)
          /\ tstate = [toks |-> toks, expired |-> expired, pc |-> "idle",
                       i |-> 0, ps |-> <<>>, tokens |-> <<>>, txc |-> 0,
                       ln |-> 0, update_count |-> 0, pendings_count |-> 0,
                       ret |-> <<>>, failed |-> FALSE]

PendingsUnchanged == UNCHANGED <<cvars, storeProofs, pstate, sess>>

\* get_pending_transactions and the grouping by mint and kind
CheckPendingsStart ==
    LET pendings == PendingRows(backend, storeTx)
        cashu == {t \in pendings : t.kind = "Cashu"}
        ln == {t \in pendings : t.kind = "LN"}
    IN /\ tstate.pc = "idle"
       /\ tstate' = [tstate EXCEPT
                        !.pc = IF cashu # {} THEN "cashu"
                               ELSE IF ln # {} THEN "ln" ELSE "ret",
                        !.i = 1,
                        !.txc = Cardinality(cashu),
                        !.ln = Cardinality(ln),
                        !.pendings_count = Cardinality(pendings)]
       /\ UNCHANGED storeTx /\ PendingsUnchanged

\* one turn of the loop over the Cashu rows: the token's proofs are
\* collected; at the last row, or with batch_size proofs or more, the mint
\* is asked and the rows of the batch are updated
CheckPendingsCashu ==
    LET i == tstate.i
        ps == tstate.ps \o TokProofs(tstate.toks, i)
        tokens == Append(tstate.tokens, Len(tstate.toks[i]))
        flush == i >= tstate.txc \/ SumSeq(tokens) >= CheckBatch
        states == check_proofs(tstate.toks, ps)
        updated == {n \in 1..Len(tokens) :
                       pending_is_spent(states, tokens, n)}
    IN /\ tstate.pc = "cashu"
       /\ storeTx' = IF flush
                     THEN pending_flush(storeTx, states, tokens, i,
                                        Len(tokens))
                     ELSE storeTx
       /\ tstate' = [tstate EXCEPT
                        !.ps = IF flush THEN <<>> ELSE ps,
                        !.tokens = IF flush THEN <<>> ELSE tokens,
                        !.update_count =
                            IF flush THEN @ + Cardinality(updated) ELSE @,
                        !.i = i + 1,
                        !.pc = IF i < tstate.txc THEN "cashu"
                               ELSE IF tstate.ln > 0 THEN "ln" ELSE "ret"]
       /\ PendingsUnchanged

\* check_proofs fails: the error is returned, the rows of this batch and of
\* the later ones are left
CheckPendingsFails ==
    /\ tstate.pc = "cashu"
    /\ tstate' = [tstate EXCEPT !.pc = "done", !.failed = TRUE]
    /\ UNCHANGED storeTx /\ PendingsUnchanged

\* the loop over the LN rows: mint_tokens for the row "q"
CheckPendingsLn(reply) ==
    /\ tstate.pc = "ln"
    /\ storeTx' = mint_tokens_store(backend, storeTx,
                      get_transaction(backend, storeTx, "q"), reply,
                      tstate.expired)
    /\ storeProofs' = mint_tokens_proofs(reply)
    /\ mgr' = MintCounter(reply = "ok").mgr
    /\ storeCounters' = MintCounter(reply = "ok").store
    /\ tstate' = [tstate EXCEPT
                     !.update_count = IF reply = "ok" THEN @ + 1 ELSE @,
                     !.pc = "ret"]
    /\ MintUnchanged

\* Ok((update_count, pendings_count))
CheckPendingsReturn ==
    /\ tstate.pc = "ret"
    /\ tstate' = [tstate EXCEPT
                     !.pc = "done",
                     !.ret = <<tstate.update_count, tstate.pendings_count>>]
    /\ UNCHANGED storeTx /\ PendingsUnchanged

NextPendings ==
    \/ CheckPendingsStart
    \/ CheckPendingsCashu
    \/ CheckPendingsFails
    \/ \E reply \in {"ok", "unpaid", "error"} : CheckPendingsLn(reply)
    \/ CheckPendingsReturn

SpecPendings == InitPendings /\ [][NextPendings]_vars

\* ----------------------------------- specification: the scan of restore
\* UnitedWallet::restore of one mint with two keysets, alone.  The mint
\* knows, per keyset and index, whether it signed the output and the state
\* of the proof.
MaxScanIdx == 3

ScanKeysets == <<Ks(1), Ks(2)>>

\* what the mint holds of an output: "none" when it never signed it
MintStates == {"none", "Unspent", "Spent", "Pending"}

\* the mint's answer for an index
MintOf(mint, k, idx) == IF idx < MaxScanIdx THEN mint[k][idx] ELSE "none"

\* .filter(|(_, s)| s.state != State::Spent): the proofs of the batch that
\* stay
scan_retain(mint, k, acked) ==
    {idx \in acked : MintOf(mint, k, idx) # "Spent"}

\* what restore does with the callback's return value before the restore
\* request and after it: nothing
scan_exit_ignored(e) == FALSE

\* a restore that leaves the offset at the first acknowledged batch
scan_offset_first(offset, before, acked) ==
    IF acked = {} \/ offset > 0 THEN offset ELSE SetMax(acked) + 1

\* offset = counter.before() + lastidx when the mint returned outputs
scan_offset(offset, before, acked) ==
    IF acked = {} THEN offset
    ELSE before + (SetMax(acked) - before + 1)

\* pstate:
\*   mint     per keyset and index the mint's state of the output
\*   pc       "idle", "keys" (get_keys of keyset k), "turn" (top of the
\*            while loop), "sent" (the restore request is in flight),
\*            "checking" (check_proofs is in flight), "done" (Wallet::
\*            restore returned), "ret" (UnitedWallet::restore returned)
\*   k        the keyset of the for loop
\*   before, offset, emptys   counter.before() and the locals
\*   acked    the indices of the batch the mint returned
\*   proofs   the proofs pushed to the caller's vector, as <<k, index>>
\*   seen     per keyset the indices the mint acknowledged to this restore
\*   asked    the callback returned true
\*   err      restore returned an error
\*   ended    the keysets whose while loop ended
IdleScan(mint) ==
    [mint |-> mint, pc |-> "idle", k |-> 1, before |-> 0, offset |-> 0,
     emptys |-> 0, acked |-> {}, proofs |-> {},
     seen |-> [k \in DOMAIN ScanKeysets |-> {}], asked |-> FALSE,
     err |-> FALSE, ended |-> {}]

\* the counters table when restore starts: empty, or the row of keyset 1
\* of an earlier use of the mnemonic
ScanStores ==
    {{}} \cup {{[NewRecord(ScanKeysets[1].id, PK, 1) EXCEPT !.counter = c]} :
                 c \in {1, MaxScanIdx + 2}}

InitScan ==
    /\ backend \in Backends
    /\ hasMnemonic = TRUE
    /\ storeCounters \in ScanStores
    /\ clock = 2
    /\ mgr = [k \in Insts |->
                 IF k = 1 THEN NewManager(storeCounters, TRUE, ScanKeysets, 2)
                 ELSE <<>>]
    /\ current = 1 /\ ninst = 1
    /\ lock = [k \in Insts |-> "free"]
    /\ req = [r \in Req |-> IdleReq]
    /\ rst = IdleRst /\ last = NoLast /\ nops = 0
    /\ crashed = FALSE /\ restored = FALSE /\ sess = <<>>
    /\ signed = {} /\ NoTx
    /\ storeProofs = {}
    /\ \E m1 \in [0..(MaxScanIdx - 1) -> MintStates],
          m2 \in [0..(MaxScanIdx - 1) -> {"none", "Unspent"}] :
          /\ \A i \in 1..(MaxScanIdx - 1) : m2[i] = "none"
          /\ pstate = IdleScan(<<m1, m2>>)

ScanUnchanged ==
    UNCHANGED <<backend, hasMnemonic, clock, current, ninst, mgr, lock, req,
                signed, rst, last, nops, crashed, restored, storeTx, tstate,
                sess>>

\* restore is called; get_keys of the first keyset is sent
ScanStart ==
    /\ pstate.pc = "idle"
    /\ pstate' = [pstate EXCEPT !.pc = "keys"]
    /\ UNCHANGED <<storeCounters, storeProofs>> /\ ScanUnchanged

\* get_keys answered: a Manager from no records, the counter at 0
ScanKeys ==
    /\ pstate.pc = "keys"
    /\ pstate' = [pstate EXCEPT !.pc = "turn", !.before = 0, !.offset = 0,
                                !.emptys = 0]
    /\ UNCHANGED <<storeCounters, storeProofs>> /\ ScanUnchanged

\* top of `while emptys < 3`: split_blanks, the callback (1), then the
\* restore request is sent
ScanSend(e) ==
    /\ pstate.pc = "turn"
    /\ pstate.emptys < EmptyBatches
    /\ pstate' = IF scan_exit_ignored(e)
                 THEN [pstate EXCEPT !.pc = "done", !.asked = TRUE]
                 ELSE [pstate EXCEPT !.pc = "sent", !.asked = @ \/ e]
    /\ UNCHANGED <<storeCounters, storeProofs>> /\ ScanUnchanged

\* the mint returned the outputs it signed; the callback (2), the offset,
\* the proofs are unblinded and check_proofs is sent
ScanReply(e) ==
    LET batch == pstate.before..(pstate.before + RestoreBatch - 1)
        acked == {idx \in batch : MintOf(pstate.mint, pstate.k, idx) # "none"}
    IN /\ pstate.pc = "sent"
       /\ pstate' = IF scan_exit_ignored(e)
                    THEN [pstate EXCEPT !.pc = "done", !.asked = TRUE]
                    ELSE [pstate EXCEPT
                             !.pc = "checking",
                             !.asked = @ \/ e,
                             !.acked = acked,
                             !.seen[pstate.k] = @ \cup acked,
                             !.offset = scan_offset(@, pstate.before, acked)]
       /\ UNCHANGED <<storeCounters, storeProofs>> /\ ScanUnchanged

\* the mint returned the states: the proofs that stay are pushed, the
\* callback (3) may end the restore, else counter.commit(()) and the next
\* turn
ScanChecked(e) ==
    LET kept == scan_retain(pstate.mint, pstate.k, pstate.acked)
    IN /\ pstate.pc = "checking"
       /\ pstate' = [pstate EXCEPT
                        !.proofs = @ \cup {<<pstate.k, idx>> : idx \in kept},
                        !.asked = @ \/ e,
                        !.acked = {},
                        !.pc = IF e THEN "done" ELSE "turn",
                        !.before = IF e THEN @ ELSE @ + RestoreBatch,
                        !.emptys = IF ~e /\ pstate.acked = {}
                                   THEN @ + 1 ELSE @]
       /\ UNCHANGED <<storeCounters, storeProofs>> /\ ScanUnchanged

\* get_keys, the restore request, the unblinding or check_proofs fails
ScanFails ==
    /\ pstate.pc \in {"keys", "sent", "checking"}
    /\ pstate' = [pstate EXCEPT !.pc = "done", !.err = TRUE]
    /\ UNCHANGED <<storeCounters, storeProofs>> /\ ScanUnchanged

\* the while loop of a keyset is over: the record is written when an
\* output was acknowledged, then the next keyset or Ok(())
ScanKeysetEnd ==
    /\ pstate.pc = "turn"
    /\ pstate.emptys >= EmptyBatches
    /\ storeCounters' =
          IF pstate.offset > 0
          THEN add_counter(backend, storeCounters,
                   [NewRecord(ScanKeysets[pstate.k].id, PK, clock)
                       EXCEPT !.counter = pstate.offset])
          ELSE storeCounters
    /\ clock' = IF pstate.offset > 0 THEN clock + 1 ELSE clock
    /\ pstate' = [pstate EXCEPT
                     !.ended = @ \cup {pstate.k},
                     !.k = IF pstate.k < Len(ScanKeysets) THEN @ + 1 ELSE @,
                     !.pc = IF pstate.k < Len(ScanKeysets) THEN "keys"
                            ELSE "done"]
    /\ UNCHANGED <<storeProofs, backend, hasMnemonic, current, ninst, mgr,
                   lock, req, signed, rst, last, nops, crashed, restored,
                   storeTx, tstate, sess>>

\* UnitedWallet::restore after Wallet::restore returned: the proofs whose
\* secret is not stored yet are stored, then the result is returned
ScanPersist ==
    LET new == {p \in pstate.proofs : p \notin Secrets(storeProofs)}
    IN /\ pstate.pc = "done"
       /\ storeProofs' = IF pstate.proofs = {} THEN storeProofs
                         ELSE add_proofs(backend, storeProofs,
                                         {ProofRow(p, 1) : p \in new}, 1)
       /\ pstate' = [pstate EXCEPT !.pc = "ret", !.proofs = new]
       /\ UNCHANGED storeCounters /\ ScanUnchanged

NextScan ==
    \/ ScanStart
    \/ ScanKeys
    \/ \E e \in BOOLEAN : ScanSend(e)
    \/ \E e \in BOOLEAN : ScanReply(e)
    \/ \E e \in BOOLEAN : ScanChecked(e)
    \/ ScanFails
    \/ ScanKeysetEnd
    \/ ScanPersist

SpecScan == InitScan /\ [][NextScan]_vars

\* ----------------------------------------- specification: the mints table
\* add_mint, remove_mint and the proofs of two mints.  A stored proof of
\* this specification has the secret <<mint url, number>>; every mint
\* offers NUT-04 for the unit sat.
MaxMintOps == 4

MaxMintProofs == 2

MintUrls == {"A", "B"}

\* Store::add_mint: one row per url, replaced (redb) or updated (sqlite)
store_add_mint(mints, url, active) == [mints EXCEPT ![url] = active]

\* remove_mint on the mints table: the row, when there is one, is stored
\* with active = false
remove_mint_store(mints, url) ==
    IF mints[url] = "none" THEN mints
    ELSE store_add_mint(mints, url, "inactive")

\* UnitedWallet::mints: the active rows
active_mints(mints) == {u \in MintUrls : mints[u] = "active"}

\* get_all_proofs: the (mint, unit) keys that have a stored proof
ProofKeys(tbl) == {<<p.secret[1], "sat">> : p \in tbl}

\* get_balances: the keys of the returned map
get_balances_keys(tbl, mints) ==
    ProofKeys(tbl) \cup {<<u, "sat">> : u \in active_mints(mints)}

\* pstate:
\*   mints     the mints table: per url "none", "active" or "inactive"
\*   wallets   the urls of the in-memory map
\*   adding    the urls whose add_mint has inserted the wallet and not yet
\*             stored the row
\*   last      the last finished call, <<name, url>>
\*   n         the calls so far
InitMints ==
    /\ CInit /\ signed = {} /\ NoTx
    /\ storeProofs = {}
    /\ pstate = [mints |-> [u \in MintUrls |-> "none"], wallets |-> {},
                 adding |-> {}, last |-> <<"", "">>, n |-> 0]

MintsUnchanged == UNCHANGED <<cvars, storeTx, tstate, sess>>

\* add_mint, first half: no wallet of the url in the map, Wallet::new
\* connected, the wallet is inserted
AddMintConnect(url) ==
    /\ pstate.n < MaxMintOps
    /\ url \notin pstate.wallets /\ url \notin pstate.adding
    /\ pstate' = [pstate EXCEPT !.wallets = @ \cup {url},
                                !.adding = @ \cup {url}]
    /\ UNCHANGED storeProofs /\ MintsUnchanged

\* add_mint, second half: the row is stored when there is none, when it is
\* inactive or when the info changed
AddMintStore(url) ==
    /\ url \in pstate.adding
    /\ pstate' = [pstate EXCEPT
                     !.mints = IF pstate.mints[url] = "active" THEN @
                               ELSE store_add_mint(@, url, "active"),
                     !.adding = @ \ {url},
                     !.last = <<"add_mint", url>>,
                     !.n = @ + 1]
    /\ UNCHANGED storeProofs /\ MintsUnchanged

\* add_mint of a url whose wallet is in the map: only the row is looked at
AddMintAgain(url) ==
    /\ pstate.n < MaxMintOps
    /\ url \in pstate.wallets /\ url \notin pstate.adding
    /\ pstate' = [pstate EXCEPT
                     !.mints = IF pstate.mints[url] = "active" THEN @
                               ELSE store_add_mint(@, url, "active"),
                     !.last = <<"add_mint", url>>,
                     !.n = @ + 1]
    /\ UNCHANGED storeProofs /\ MintsUnchanged

\* remove_mint(url)
RemoveMint(url) ==
    /\ pstate.n < MaxMintOps
    /\ pstate' = [pstate EXCEPT
                     !.mints = remove_mint_store(@, url),
                     !.wallets = @ \ {url},
                     !.last = <<"remove_mint", url>>,
                     !.n = @ + 1]
    /\ UNCHANGED storeProofs /\ MintsUnchanged

\* mint_tokens or receive_tokens on a mint of the map: a proof is stored
MintProof(url, i) ==
    /\ pstate.n < MaxMintOps
    /\ url \in pstate.wallets
    /\ <<url, i>> \notin Secrets(storeProofs)
    /\ storeProofs' = add_proofs(backend, storeProofs,
                                 {ProofRow(<<url, i>>, 1)}, 1)
    /\ pstate' = [pstate EXCEPT !.last = <<"mint_tokens", url>>, !.n = @ + 1]
    /\ MintsUnchanged

NextMints ==
    \/ \E url \in MintUrls : AddMintConnect(url)
    \/ \E url \in MintUrls : AddMintStore(url)
    \/ \E url \in MintUrls : AddMintAgain(url)
    \/ \E url \in MintUrls : RemoveMint(url)
    \/ \E url \in MintUrls, i \in 1..MaxMintProofs : MintProof(url, i)

SpecMints == InitMints /\ [][NextMints]_vars

\* ------------------------------- specification: the pieces of a token
\* receive_tokens of a token of several pieces and Wallet::receive_token
\* called on the wallet of mint "A".  A piece is [mint, amount]: one proof
\* of the amount, no proof for amount 0.
MaxPieces == 2

MaxRecv == 1

MaxPieceAmt == 1

PieceMints == {"A", "B"}

Pieces == [mint : PieceMints, amount : 0..MaxPieceAmt]

\* the tokens of at most n pieces
RECURSIVE PieceLists(_)
PieceLists(n) ==
    IF n = 0 THEN {<<>>}
    ELSE LET shorter == PieceLists(n - 1)
         IN shorter \cup {Append(l, x) : l \in {y \in shorter : Len(y) = n - 1},
                                         x \in Pieces}

\* a receive_token that takes the piece of any mint
receive_token_any_mint(url, piece) ==
    IF piece.amount = 0 THEN "empty" ELSE ""

\* Wallet::receive_token before the lock: Ok(empty) for a piece without
\* proofs, MintUrlUnmatched for the piece of another mint
receive_token_check(url, piece) ==
    IF piece.amount = 0 THEN "empty"
    ELSE IF piece.mint # url THEN "MintUrlUnmatched"
    ELSE ""

\* UnitedWallet::get_wallet: the error for a url without a wallet
get_wallet(wallets, url) ==
    IF url \in wallets THEN "" ELSE "mint_url notfound"

\* pstate:
\*   wallets  the urls of the in-memory map
\*   spent    secrets Spent at the mint
\*   issued   number of secrets the mint has signed so far
\*   pclock   next value of unixtime_ms
\*   pieces   the pieces of the token of the running receive_tokens
\*   i        the piece the loop is at, 0 when no receive_tokens runs
\*   n        the calls so far
\*   last     the last piece handled: its error ("" for Ok), whether a swap
\*            was sent, the piece
InitPieces ==
    /\ backend \in Backends
    /\ hasMnemonic \in BOOLEAN
    /\ clock = 2 /\ storeCounters = {}
    /\ current = 1 /\ ninst = 1
    /\ mgr = [k \in Insts |-> IF k = 1 THEN LoadManager({}, hasMnemonic, 1)
                              ELSE <<>>]
    /\ lock = [k \in Insts |-> "free"]
    /\ req = [r \in Req |-> IdleReq]
    /\ rst = IdleRst /\ last = NoLast /\ nops = 0
    /\ crashed = FALSE /\ restored = FALSE
    /\ signed = {} /\ sess = <<>>
    /\ storeTx = EmptyTxStore /\ tstate = <<>>
    /\ storeProofs = {}
    /\ \E wallets \in {{}, {"A"}} :
          pstate = [wallets |-> wallets, spent |-> {}, issued |-> 0,
                    pclock |-> 3, pieces |-> <<>>, i |-> 0, n |-> 0,
                    last |-> [err |-> "-", req |-> FALSE,
                              piece |-> [mint |-> "-", amount |-> 0]]]

\* Wallet::receive_token of the wallet of "A" and what the caller does with
\* the result (store says whether the caller is receive_tokens, which
\* stores the proofs and the transaction); netOk is the mint's answer
ReceivePiece(piece, store, netOk, next) ==
    LET check == receive_token_check("A", piece)
        token == IF piece.amount = 0 THEN <<>>
                 ELSE << <<pstate.issued + 1, piece.amount>> >>
        plan == split_amount2(piece.amount, 0, 0)
        n == Len(plan.amounts)
        outs == NewProofs(plan.amounts, pstate.issued + 1, pstate.pclock)
        ok == netOk /\ ~MintRejects(token, pstate.spent)
        fin(err, rq) == [next EXCEPT !.last = [err |-> err, req |-> rq,
                                                piece |-> piece]]
    IN IF check = "MintUrlUnmatched"
       THEN /\ pstate' = [fin(check, FALSE) EXCEPT !.i = 0]
            /\ UNCHANGED <<storeProofs, storeTx, mgr, storeCounters>>
       ELSE IF check = "empty"
       THEN /\ pstate' = fin("", FALSE)
            /\ storeProofs' = IF store
                              THEN add_proofs(backend, storeProofs, {},
                                              pstate.pclock)
                              ELSE storeProofs
            /\ storeTx' = IF store
                          THEN add_transaction(backend, storeTx,
                                   Tx(token, "Cashu", "success", "In"))
                          ELSE storeTx
            /\ UNCHANGED <<mgr, storeCounters>>
       ELSE /\ pstate.issued + 1 + n <= MaxIssued
            /\ mgr' = SwapCounter(n, ok).mgr
            /\ storeCounters' = SwapCounter(n, ok).store
            /\ IF ~ok
               THEN /\ pstate' = [fin("mint", TRUE) EXCEPT !.i = 0]
                    /\ UNCHANGED <<storeProofs, storeTx>>
               ELSE /\ storeProofs' =
                          IF store
                          THEN add_proofs(backend, storeProofs, SeqSet(outs),
                                          pstate.pclock)
                          ELSE storeProofs
                    /\ storeTx' =
                          IF store
                          THEN add_transaction(backend, storeTx,
                                   Tx(token, "Cashu", "success", "In"))
                          ELSE storeTx
                    /\ pstate' = [fin("", TRUE) EXCEPT
                                     !.spent = @ \cup SeqSet(token),
                                     !.issued = @ + 1 + n,
                                     !.pclock = @ + 1]

\* receive_tokens is called with a token
ReceiveTokensStart(pieces) ==
    /\ pstate.i = 0 /\ pstate.n < MaxRecv
    /\ pieces # <<>>
    /\ pstate' = [pstate EXCEPT !.pieces = pieces, !.i = 1, !.n = @ + 1]
    /\ UNCHANGED <<storeProofs, storeTx, mgr, storeCounters>>
    /\ SendUnchanged

\* one turn of the loop over the pieces: get_wallet, receive_token,
\* add_proofs, add_transaction
ReceiveTokensPiece(netOk) ==
    LET piece == pstate.pieces[pstate.i]
        next == [pstate EXCEPT
                    !.i = IF pstate.i < Len(pstate.pieces) THEN @ + 1 ELSE 0]
    IN /\ pstate.i > 0
       /\ SendUnchanged
       /\ IF get_wallet(pstate.wallets, piece.mint) # ""
          THEN /\ pstate' = [pstate EXCEPT
                     !.i = 0,
                     !.last = [err |-> "mint_url notfound", req |-> FALSE,
                               piece |-> piece]]
               /\ UNCHANGED <<storeProofs, storeTx, mgr, storeCounters>>
          ELSE ReceivePiece(piece, TRUE, netOk, next)

\* Wallet::receive_token called on the wallet of "A" by another caller
WalletReceiveToken(piece, netOk) ==
    /\ pstate.i = 0 /\ pstate.n < MaxRecv
    /\ "A" \in pstate.wallets
    /\ SendUnchanged
    /\ ReceivePiece(piece, FALSE, netOk, [pstate EXCEPT !.n = @ + 1])

NextPieces ==
    \/ \E pieces \in PieceLists(MaxPieces) : ReceiveTokensStart(pieces)
    \/ \E netOk \in BOOLEAN : ReceiveTokensPiece(netOk)
    \/ \E piece \in Pieces, netOk \in BOOLEAN :
          WalletReceiveToken(piece, netOk)

SpecPieces == InitPieces /\ [][NextPieces]_vars

\* --------------------------------- specification: the plan of a send
\* send_with_denomination up to the outputs it plans: the inputs sum to
\* avail, the caller asks for amount in proofs of denomination denom
MaxAvail == 6

MaxDenom == 3

\* split_amount2: `if uni > 2 { panic!(..) }`, reached for a send amount
\* other than 0
split_amount2_panics(amount_send, denomination) ==
    amount_send # 0 /\ denomination > 2

\* the outcome of send_with_denomination before the swap request is sent:
\* insufficant_funds, the panic of split_amount2, or the planned outputs
send_plan(avail, amount, denom) ==
    IF avail < amount
    THEN [out |-> "insufficient", amounts |-> <<>>, send_idx_start |-> 0]
    ELSE IF split_amount2_panics(amount, denom)
    THEN [out |-> "panic", amounts |-> <<>>, send_idx_start |-> 0]
    ELSE [out |-> "ok",
          amounts |-> split_amount2(avail - amount, amount, denom).amounts,
          send_idx_start |->
              split_amount2(avail - amount, amount, denom).send_idx_start]

NoSplit == [out |-> "", n |-> 0, send_idx_start |-> 0]

\* what send_with_denomination does with a swap response that carries m
\* signatures: "Empty split response", the size check of
\* process_swap_response, one proof per signature, and the assert! of
\* SplitProofsGeneric::new on send_idx_start <= proofs.len()
send_split(plan, m) ==
    IF m = 0 THEN [NoSplit EXCEPT !.out = "Empty split response"]
    ELSE IF Len(plan.amounts) < m
    THEN [NoSplit EXCEPT !.out = "promises size unexpected"]
    ELSE IF ~(plan.send_idx_start <= m)
    THEN [out |-> "assert", n |-> m, send_idx_start |-> plan.send_idx_start]
    ELSE [out |-> "ok", n |-> m, send_idx_start |-> plan.send_idx_start]

\* pstate: the arguments, whether the call was made, the outcome of the
\* planning (res) and of the call (fin)
InitPlan ==
    /\ CInit /\ signed = {} /\ NoTx
    /\ storeProofs = {}
    /\ \E avail \in 0..MaxAvail, amount \in 0..MaxAvail, denom \in 0..MaxDenom :
          pstate = [avail |-> avail, amount |-> amount, denom |-> denom,
                    done |-> FALSE,
                    res |-> [out |-> "", amounts |-> <<>>,
                             send_idx_start |-> 0],
                    fin |-> NoSplit]

SendPlan ==
    /\ ~pstate.done
    /\ pstate' = [pstate EXCEPT
                     !.done = TRUE,
                     !.res = send_plan(pstate.avail, pstate.amount,
                                       pstate.denom)]
    /\ UNCHANGED <<cvars, storeProofs, storeTx, tstate, sess>>

\* the mint answers the swap with m signatures, as many as outputs were
\* sent, fewer, or one more
SendReply(m) ==
    /\ pstate.done /\ pstate.res.out = "ok" /\ pstate.fin.out = ""
    /\ m \in 0..(Len(pstate.res.amounts) + 1)
    /\ pstate' = [pstate EXCEPT !.fin = send_split(pstate.res, m)]
    /\ UNCHANGED <<cvars, storeProofs, storeTx, tstate, sess>>

\* try_to_call_swap returns an error
SendSwapFails ==
    /\ pstate.done /\ pstate.res.out = "ok" /\ pstate.fin.out = ""
    /\ pstate' = [pstate EXCEPT !.fin = [NoSplit EXCEPT !.out = "error"]]
    /\ UNCHANGED <<cvars, storeProofs, storeTx, tstate, sess>>

NextPlan ==
    \/ SendPlan
    \/ \E m \in 0..(MaxAvail + 1) : SendReply(m)
    \/ SendSwapFails

SpecPlan == InitPlan /\ [][NextPlan]_vars

\* ------------------------------------- specification: the counter lock
\* Two tasks call mint_token, receive_token / send and melt on one Wallet.
\* Wallet::melt calls keyset0 first, which takes the counter lock on its
\* own, and takes the lock again after keyset0 has returned.

\* requests one behaviour of this specification starts
MaxLockOps == 2

\* a keyset0 whose guard outlives the call
keyset0_keeps_guard(l, r) == r

\* Wallet::keyset0 returns: the guard `lock` is a local of keyset0 and the
\* returned &KeySet borrows self.keysets, so the guard is dropped
keyset0_release(l, r) == "free"

\* indices the requests that have started and not returned may still draw
RECURSIVE PendingBudget(_)
PendingBudget(S) ==
    IF S = {} THEN 0
    ELSE LET r == CHOOSE x \in S : TRUE
         IN (IF req[r].pc = "idle" THEN 0 ELSE Budget(req[r].args))
            + PendingBudget(S \ {r})

\* a task calls mint_token, receive_token, send or melt on the wallet
StartLock(r, a) ==
    /\ req[r].pc = "idle"
    /\ nops < MaxLockOps
    /\ Cur(current).state + PendingBudget(Req) + Budget(a) <= MaxIdx
    /\ nops' = nops + 1
    /\ req' = [req EXCEPT ![r] =
                  [IdleReq EXCEPT
                      !.pc = IF a.kind = "melt" THEN "keyset0" ELSE "waitlock",
                      !.args = a,
                      !.inst = current]]
    /\ UNCHANGED <<ovars, last, backend, hasMnemonic, clock, storeCounters,
                   current, ninst, mgr, lock, signed, rst, crashed, restored>>

\* Wallet::keyset0: self.counter.lock().await
Keyset0Lock(r) ==
    /\ req[r].pc = "keyset0"
    /\ lock[req[r].inst] = "free"
    /\ lock' = [lock EXCEPT ![req[r].inst] = r]
    /\ req' = [req EXCEPT ![r].pc = "keyset0held"]
    /\ UNCHANGED <<ovars, last, backend, hasMnemonic, clock, storeCounters,
                   current, ninst, mgr, signed, rst, nops, crashed, restored>>

\* Wallet::keyset0 returns the keyset of the unit; melt goes on to its own
\* self.counter.lock().await
Keyset0Return(r) ==
    /\ req[r].pc = "keyset0held"
    /\ lock' = [lock EXCEPT ![req[r].inst] = keyset0_release(@, r)]
    /\ req' = [req EXCEPT ![r].pc = "waitlock"]
    /\ UNCHANGED <<ovars, last, backend, hasMnemonic, clock, storeCounters,
                   current, ninst, mgr, signed, rst, nops, crashed, restored>>

\* the mint accepted the request and store.add_record fails inside
\* counter.commit: record.counter was set, the Err leaves through `?`
ReplyStoreError(r) ==
    LET q == req[r]
        c == Cur(q.inst)
    IN /\ q.pc = "sent"
       /\ hasMnemonic
       /\ ~Conflict(q)
       /\ \E sg \in SignChoices(q) :
             Return(r, commit_mem(c, hasMnemonic), storeCounters,
                    signed \cup sg, "store_error")

\* every way the network call and what follows it can end
LockFinish(r) == Finish(r) \/ ReplyStoreError(r)

NextLock ==
    \/ \E r \in Req, a \in Requests : StartLock(r, a)
    \/ \E r \in Req : Keyset0Lock(r)
    \/ \E r \in Req : Keyset0Return(r)
    \/ \E r \in Req : Acquire(r)
    \/ \E r \in Req : LockFinish(r)

\* tokio's Mutex hands the lock to waiters in the order they asked (strong
\* fairness of the acquisitions); keyset0 runs to its end without awaiting
\* and every network call ends (weak fairness of the returns)
LockFairness ==
    \A r \in Req :
       /\ SF_vars(Keyset0Lock(r))
       /\ SF_vars(Acquire(r))
       /\ WF_vars(Keyset0Return(r))
       /\ WF_vars(LockFinish(r))

SpecLock == Init /\ [][NextLock]_vars /\ LockFairness

\* ----------------------------------------------------------------- claims
\* the rows of the counters table for the modelled (mint, keyset, pubkey)
KeyRows(tbl) == {t \in tbl : t.keysetid = Keysets[1].id /\ t.pubkey = PK}

\* the highest counter stored for the key, 0 when there is no row
StoredCounter(tbl) ==
    IF KeyRows(tbl) = {} THEN 0 ELSE SetMax({t.counter : t \in KeyRows(tbl)})

\* request r returns in this step with one of the outcomes
Returns(r, outs) ==
    /\ req[r].pc = "sent"
    /\ req'[r].pc = "idle"
    /\ last'.outcome \in outs

\* C1: no two requests in flight derive outputs from the same counter index
\* (the claim as stated; add_mint with reconnect refutes it)
C1_DistinctIndices ==
    \A r1, r2 \in Req :
        (r1 # r2 /\ req[r1].pc = "sent" /\ req[r2].pc = "sent")
            => IdxRange(req[r1]) \cap IdxRange(req[r2]) = {}

\* C2: for one Wallet at most one of mint, swap, melt and restore is between
\* counter begin and commit/cancel, and no request is at the mint while a
\* restore of the same wallet runs (the claim as stated)
C2_OneInFlight ==
    /\ \A r1, r2 \in Req :
          (req[r1].pc = "sent" /\ req[r2].pc = "sent"
              /\ req[r1].inst = req[r2].inst) => r1 = r2
    /\ \A r \in Req :
          req[r].pc = "sent" => ~(rst.pc = "run" /\ rst.inst = req[r].inst)

\* C3: no request derives outputs from an index after the mint has signed
\* outputs of that index (the claim as stated)
C3_NoReuse == \A r \in Req : ~req[r].reuse

\* C4: the counter stored for the key never decreases (the claim as stated)
C4_Monotonic ==
    [][StoredCounter(storeCounters') >= StoredCounter(storeCounters)]_vars

\* C5: when the network call of a mint, swap or melt fails with an error
\* other than "already signed" (mint error, transport error, timeout, the
\* future dropped), the step leaves the counters table unchanged and the
\* cursor and the committed counter of the wallet's Manager equal the index
\* the request started from
C5_FailureRollsBack ==
    [][\A r \in Req :
          Returns(r, {"error", "dropped"}) =>
              /\ storeCounters' = storeCounters
              /\ mgr'[req[r].inst][Pos(req[r].inst)].state = req[r].start
              /\ mgr'[req[r].inst][Pos(req[r].inst)].record.counter
                    = req[r].start]_vars

\* C5 witness: a request that started above index 0 failed, the cursor of
\* its Manager is back at its starting index and the store holds that value
C5_Witness ==
    /\ last.outcome = "error"
    /\ last.start > 0
    /\ Cur(last.inst).state = last.start
    /\ StoredCounter(storeCounters) = last.start

C7_CommitAfterSuccess ==
    [][\A r \in Req :
          Returns(r, {"ok", "unblind_failed"}) =>
              \E t \in KeyRows(storeCounters') :
                  t.counter >= req[r].first + NumOutputs(req[r].args)]_vars

\* C8: the store holds at most one proof row per secret of the mint (the
\* claim as stated)
C8_OneRowPerSecret ==
    \A a, b \in storeProofs : a.secret = b.secret => a = b

\* C9: a transaction that is success, failed or expired keeps its status
\* under every wallet operation (the claim as stated)
C9_TerminalStable ==
    [][\A t \in TerminalRows(backend, storeTx) :
          t \in TerminalRows(backend, storeTx')]_vars

\* C10: no transaction id is at once among the pending rows and among the
\* terminal rows of the store (the claim as stated)
C10_Disjoint ==
    {t.id : t \in PendingRows(backend, storeTx)}
        \cap {t.id : t \in TerminalRows(backend, storeTx)} = {}

\* C11: while the value-moving request of send_tokens, melt or mint_tokens
\* is at the mint, the store holds a pending row with the id of that
\* operation (the first half of the claim as stated)
C11_PendingBeforeRequest ==
    tstate.sending # "" =>
        \E t \in PendingRows(backend, storeTx) : t.id = tstate.sending

\* C12: in a count session cancel() and the drop of the session set the
\* cursor to the committed counter, and a count() that follows a cancel
\* returns what the first count() after the last commit returned
C12_CancelRollsBack ==
    [][(sess.pc = "open" /\ sess'.prev \in {"cancel", "drop"}
           /\ sess' # sess
           => /\ mgr'[1][sess.pos].state = mgr[1][sess.pos].record.counter
              /\ mgr'[1][sess.pos].record = mgr[1][sess.pos].record)
       /\ (sess'.n = sess.n + 1 /\ sess'.recount
           => sess'.ret = sess.anchor[SessKs])]_vars

\* C12 witness: after a commit of a positive counter and a later count(),
\* a cancel was followed by a count() that returned the same index
C12_Witness ==
    /\ sess # <<>>
    /\ sess.prev = "count"
    /\ sess.recount
    /\ sess.ret \in 1..MaxCounts
    /\ sess.ret = SessCounter.record.counter

\* the records get_counters returns for the mnemonic and one keyset
KeysetRecords(tbl, id) ==
    SelectSeq(get_counters(tbl, PK), LAMBDA t : t.keysetid = id)

\* C13: with a mnemonic, a commit that returns Ok leaves the cursor where
\* it was, makes the committed counter equal to it and stores the record,
\* which is then the one record get_counters returns for the keyset; a
\* commit right after such a commit changes neither the store nor the
\* Manager
C13_CommitStores ==
    [][(sess.pc = "open" /\ hasMnemonic /\ sess' # sess
           /\ sess'.prev \in {"commit", "recommit"}
           => /\ mgr'[1][sess.pos].state = SessCounter.state
              /\ mgr'[1][sess.pos].record.counter = SessCounter.state
              /\ mgr'[1][sess.pos].record.pubkey = PK
              /\ KeysetRecords(storeCounters', SessKs)
                    = <<mgr'[1][sess.pos].record>>)
       /\ (sess.pc = "open" /\ sess'.prev = "recommit"
           => mgr' = mgr /\ storeCounters' = storeCounters)]_vars

\* C13 witness: with a mnemonic a positive counter was committed, committed
\* again at once, and the store holds the record of the session
C13_Witness ==
    /\ sess # <<>>
    /\ hasMnemonic
    /\ sess.prev = "recommit"
    /\ SessCounter.record.counter \in 1..MaxCounts
    /\ SessCounter.record \in storeCounters

\* C14: add_counter with a record whose counter is not above the counter
\* stored for its key leaves the stored counter of the key as it was (the
\* claim as stated)
C14_NoLowering ==
    [][(/\ sess' # <<>>
        /\ sess'.keysetid = Keysets[1].id
        /\ KeyRows(storeCounters) # {}
        /\ sess'.counter <= StoredCounter(storeCounters))
           => StoredCounter(storeCounters') = StoredCounter(storeCounters)]_vars

\* C15: the store holds at most one record per (keyset, pubkey) of the
\* mint (the claim as stated)
C15_OneRecordPerKey ==
    \A a, b \in storeCounters : SameKey(a, b) => a = b

\* C16: a wallet without a mnemonic leaves the counters table as it is in
\* every step of every mint, swap and melt request
C16_NoMnemonicNoRecord ==
    [][~hasMnemonic => storeCounters' = storeCounters]_vars

\* C16 witness: without a mnemonic a request succeeded and its commit
\* advanced the committed counter of the Manager in memory
C16_Witness ==
    /\ ~hasMnemonic
    /\ last.outcome = "ok"
    /\ Cur(last.inst).record.counter > 0

\* C17: every index count() hands out for generating an output is below
\* the retirement bound 2^31 - 51 (the claim as stated)
C17_BelowLimit ==
    sess # <<>> => sess.ret < CounterLimit

\* the unit of the keyset of counter c under the keyset list of the session
CounterUnit(c) == sess.keysets[c.keysetidx].unit

\* the keyset ids with a record in the store the Manager is built from
RecordedIds ==
    IF hasMnemonic THEN {t.keysetid : t \in {r \in storeCounters : r.pubkey = PK}}
    ELSE {}

\* C18: start_count(unit), unit defaulting to sat, fails exactly when no
\* counter of the Manager (no live keyset) has the unit, and otherwise
\* selects a counter of that unit whose first-seen timestamp is the
\* earliest among them; when the Manager is rebuilt, the counter of every
\* keyset without a stored record starts at index 0 and stands after the
\* counters of all recorded keysets
C18_StartCount ==
    [][(sess.pc = "closed" /\ sess' # sess
           /\ sess'.prev \in {"start", "nokeyset"}
           => LET u == IF sess'.unit = "none" THEN "sat" ELSE sess'.unit
                  S == {j \in DOMAIN mgr[1] : CounterUnit(mgr[1][j]) = u}
              IN /\ (sess'.prev = "nokeyset") = (S = {})
                 /\ sess'.prev = "start"
                       => /\ sess'.pc = "open"
                          /\ sess'.pos \in S
                          /\ \A j \in S : mgr[1][sess'.pos].record.ts
                                             <= mgr[1][j].record.ts)
       /\ (sess'.loads = sess.loads + 1
           => \A i \in DOMAIN mgr'[1] :
                 mgr'[1][i].record.keysetid \notin RecordedIds
                    => /\ mgr'[1][i].state = 0
                       /\ mgr'[1][i].record.counter = 0
                       /\ \A j \in DOMAIN mgr'[1] :
                             mgr'[1][j].record.keysetid \in RecordedIds
                                => j < i)]_vars

\* reached: after a rebuild the mint lists a new sat keyset before the one
\* with a committed record, and start_count with no unit selected the
\* recorded one
C18_Witness ==
    /\ sess # <<>> /\ sess.loads = 1 /\ sess.prev = "start"
    /\ sess.unit = "none"
    /\ sess.keysets = <<Ks(3), Ks(1)>>
    /\ Len(mgr[1]) = 2
    /\ SessKs = 1
    /\ SessCounter.record.counter \in 1..MaxCounts
    /\ mgr[1][2].record.counter = 0

\* C19: send_tokens of an amount above the stored balance fails with
\* InsufficientFunds, sends no request to the mint, and leaves the proofs,
\* the counter (in memory and stored) and the transactions as they were
C19_InsufficientFunds ==
    [][(pstate' # pstate /\ pstate'.last.op = "send"
           /\ pstate'.last.A > Balance(storeProofs))
       => /\ pstate'.last.err = "insufficient"
          /\ ~pstate'.last.req
          /\ pstate'.spent = pstate.spent
          /\ storeProofs' = storeProofs
          /\ mgr' = mgr /\ storeCounters' = storeCounters
          /\ storeTx' = storeTx]_vars

\* reached: a send above a positive balance was refused after earlier
\* swaps had moved the counter
C19_Witness ==
    /\ pstate # <<>> /\ pstate.last.op = "send"
    /\ pstate.last.err = "insufficient"
    /\ pstate.last.B > 0 /\ pstate.last.A > pstate.last.B
    /\ Balance(storeProofs) = pstate.last.B
    /\ Cur(1).state > 0

\* C20: a successful send_tokens of A from balance B >= A leaves B - A and
\* returns a token of sum A, and the receive_tokens of that token that
\* follows returns A and brings the balance back to B (the claim as stated)
C20_SendReceive ==
    [][/\ (pstate' # pstate /\ pstate'.last.op = "send"
              /\ pstate'.last.err = ""
           => /\ Balance(storeProofs') = Balance(storeProofs) - pstate'.last.A
              /\ SumSecrets(pstate'.token) = pstate'.last.A)
       /\ (pstate' # pstate /\ pstate'.last.op = "receive"
              /\ pstate'.last.own
              /\ pstate.last.op = "send" /\ pstate.last.err = ""
           => /\ pstate'.last.err = ""
              /\ pstate'.last.ret = pstate.last.A
              /\ Balance(storeProofs') = pstate.last.B)]_vars

\* C21: select_send_proofs fails for amount 0; with a proof of exactly
\* the amount it puts the first such proof at position 0 (a swap) and
\* returns 0; otherwise it returns the smallest index whose prefix sum
\* reaches the amount, or fails with InsufficientFunds when the total falls
\* short; on success the selected prefix covers the amount and the list is
\* a permutation of the input
C21_Select ==
    pstate.done =>
       LET a == pstate.amount
           ps == pstate.ps
           r == pstate.res
           exact == {i \in DOMAIN ps : ps[i].secret[2] = a}
           first == CHOOSE i \in exact : \A j \in exact : i <= j
           pre(q, k) == SumRows(SubSeq(q, 1, k))
       IN /\ a = 0 => r.err = "amount0"
          /\ (a > 0 /\ exact # {})
                => /\ r.err = "" /\ r.take = 0
                   /\ r.ps[1] = ps[first] /\ r.ps[first] = ps[1]
                   /\ \A i \in DOMAIN ps \ {1, first} : r.ps[i] = ps[i]
          /\ (a > 0 /\ exact = {} /\ pre(ps, Len(ps)) >= a)
                => /\ r.err = "" /\ r.ps = ps
                   /\ pre(ps, r.take + 1) >= a
                   /\ pre(ps, r.take) < a
          /\ (a > 0 /\ pre(ps, Len(ps)) < a) => r.err = "insufficient"
          /\ r.err = ""
                => /\ r.take + 1 \in DOMAIN r.ps
                   /\ pre(r.ps, r.take + 1) >= a
                   /\ Len(r.ps) = Len(ps)
                   /\ SeqSet(r.ps) = SeqSet(ps)

\* reached: a proof of exactly the amount was found behind others and
\* swapped to the front
C21_Witness ==
    /\ pstate # <<>> /\ "done" \in DOMAIN pstate /\ pstate.done
    /\ pstate.res.err = "" /\ pstate.res.ps # pstate.ps
    /\ Len(pstate.ps) = MaxLen

\* C22: once the mint has answered the melt request, melt deletes the
\* proofs it sent exactly when paid, stores every change proof, and the
\* store holds exactly one row with the quote id: Lightning, out, success
\* when paid and failed otherwise (the claim as stated)
C22_MeltAnswered ==
    [][(pstate.m.pc = "melt" /\ pstate'.m.answered)
       => /\ pstate'.m.paid
                => Secrets(SeqSet(pstate.m.sent)) \cap Secrets(storeProofs') = {}
          /\ ~pstate'.m.paid => SeqSet(pstate.m.sent) \subseteq storeProofs'
          /\ Secrets(SeqSet(pstate'.m.change)) \subseteq Secrets(storeProofs')
          /\ {t \in TxRows(backend, storeTx') : t.id = pstate.m.quote}
                = {Tx(pstate.m.quote, "LN",
                      IF pstate'.m.paid THEN "success" ELSE "failed",
                      "Out")}]_vars

\* C23: melt with an expired invoice, an invoice without amount, or an
\* amount argument that is not the invoice amount (in sat, rounded up)
\* returns an error at once: no request is sent, and proofs, counter and
\* transactions are unchanged
C23_MeltRejected ==
    [][(pstate.m.pc = "idle" /\ pstate'.m # pstate.m
          /\ LET inv == pstate'.m.inv
                 arg == pstate'.m.arg
             IN \/ inv.expired
                \/ inv.msat = -1
                \/ arg # 0 /\ ~((arg - 1) * 1000 < inv.msat
                                 /\ inv.msat <= arg * 1000))
       => /\ pstate'.m.pc = "idle"
          /\ pstate'.m.err # ""
          /\ ~pstate'.m.answered
          /\ pstate'.spent = pstate.spent
          /\ pstate'.issued = pstate.issued
          /\ storeProofs' = storeProofs
          /\ mgr' = mgr /\ storeCounters' = storeCounters
          /\ storeTx' = storeTx]_vars

\* reached: a wallet that holds proofs refuses an expired invoice whose
\* amount it could pay
C23_Witness ==
    /\ pstate # <<>> /\ "m" \in DOMAIN pstate
    /\ pstate.m.pc = "idle" /\ pstate.m.err = "Invoice expired"
    /\ pstate.m.inv.msat = 1000 /\ pstate.m.arg = 1
    /\ Balance(storeProofs) >= 2

\* C24: when the mint answers a mint_tokens call that found the pending
\* row of its quote with "invoice not paid", the row becomes expired if
\* the invoice is locally expired and the transactions are untouched
\* otherwise; the error is returned, no proof is stored and the counter
\* (in memory and stored) is as before
C24_NotPaid ==
    [][(tstate.sending = "q" /\ tstate'.sending = ""
          /\ tstate'.ret = "unpaid"
          /\ tstate.found = {Tx("q", "LN", "pending", "In")}
          /\ tstate.found \subseteq PendingRows(backend, storeTx))
       => /\ tstate.expired
                => /\ {t \in TxRows(backend, storeTx') : t.id = "q"}
                         = {Tx("q", "LN", "expired", "In")}
                   /\ PendingRows(backend, storeTx')
                         = PendingRows(backend, storeTx) \ tstate.found
          /\ ~tstate.expired => storeTx' = storeTx
          /\ storeProofs' = storeProofs
          /\ mgr' = mgr /\ storeCounters' = storeCounters]_vars

\* reached: mint_tokens got "invoice not paid" for an expired invoice and
\* the row of the quote is expired
C24_Witness ==
    /\ tstate # <<>> /\ tstate.ret = "unpaid" /\ tstate.expired
    /\ tstate.sending = "" /\ ~tstate.issued
    /\ Tx("q", "LN", "expired", "In") \in TerminalRows(backend, storeTx)
    /\ PendingRows(backend, storeTx) = {}

\* the Cashu rows of the initial store that are no longer pending
CashuSuccess ==
    {i \in 1..Len(tstate.toks) :
        Tx(CashuId(i), "Cashu", "success", "Out")
            \in TxRows(backend, storeTx)}

\* the rows check_pendings changed: the rows that are not pending any more
PendingsUpdated ==
    {t \in TxRows(backend, storeTx) : t.status # "pending"}

\* C25: when check_pendings has returned Ok, a Cashu row is success iff the
\* mint reports one of its own proofs Spent, and the returned pair is the
\* number of rows updated and the number of pending rows at the start
C25_CheckPendings ==
    (tstate # <<>> /\ tstate.pc = "done" /\ ~tstate.failed)
    => /\ CashuSuccess =
            {i \in 1..Len(tstate.toks) :
                \E j \in DOMAIN tstate.toks[i] : tstate.toks[i][j] = "Spent"}
       /\ tstate.ret = <<Cardinality(PendingsUpdated),
                         Len(tstate.toks) + tstate.ln>>

\* C26: when a success In transaction is stored while a pending Out row of
\* the same id exists, afterwards get_all_transactions holds the In leg
\* and the Out leg of that id, both success, and no row of the id is pending
C26_BothLegs ==
    [][\A id \in TxIds :
          (/\ tstate' = <<Tx(id, "Cashu", "success", "In")>>
           /\ Tx(id, "Cashu", "pending", "Out")
                 \in PendingRows(backend, storeTx))
          => /\ {Tx(id, "Cashu", "success", "In"),
                 Tx(id, "Cashu", "success", "Out")}
                   \subseteq TxRows(backend, storeTx')
             /\ {t \in PendingRows(backend, storeTx') : t.id = id} = {}]_vars

\* the counters table rows of keyset k of the scan
ScanRows(tbl, k) ==
    {t \in tbl : t.keysetid = ScanKeysets[k].id /\ t.pubkey = PK}

\* C27: when the scan of a keyset ends, the store holds a record of
\* (keyset, pubkey) with counter = highest acknowledged index + 1 if the
\* mint acknowledged an output of the keyset, and the only row the step
\* writes is that one; with no acknowledged output, and in every other
\* step of restore, the counters table is left as it is
C27_RestoreRecord ==
    [][IF pstate'.ended # pstate.ended
       THEN LET k == pstate.k
                seen == pstate.seen[k]
            IN IF seen # {}
               THEN /\ \E t \in ScanRows(storeCounters', k) :
                          t.counter = SetMax(seen) + 1
                    /\ \A t \in storeCounters' \ storeCounters :
                          /\ t \in ScanRows(storeCounters', k)
                          /\ t.counter = SetMax(seen) + 1
               ELSE storeCounters' = storeCounters
       ELSE storeCounters' = storeCounters]_vars

\* reached: restore returned after it wrote the record of keyset 1 whose
\* highest acknowledged output is index 2, and none for keyset 2
C27_Witness ==
    /\ pstate # <<>> /\ pstate.pc = "ret" /\ ~pstate.err
    /\ pstate.ended = {1, 2}
    /\ pstate.seen[1] = {0, 2} /\ pstate.seen[2] = {}
    /\ \E t \in ScanRows(storeCounters, 1) : t.counter = 3
    /\ ScanRows(storeCounters, 2) = {}

\* C28: every proof restore has collected, returns and stores was reported
\* Unspent by the mint
C28_OnlyUnspent ==
    pstate # <<>>
    => /\ \A p \in pstate.proofs :
             MintOf(pstate.mint, p[1], p[2]) = "Unspent"
       /\ \A s \in Secrets(storeProofs) :
             MintOf(pstate.mint, s[1], s[2]) = "Unspent"

\* C29: once the callback has returned true, the step that got the answer
\* and every later step send no request to the mint, and restore returns
\* without error
C29_CallbackStops ==
    [][pstate'.asked
       => /\ ~(pstate'.pc \in {"keys", "sent", "checking"}
               /\ pstate'.pc # pstate.pc)
          /\ ~pstate'.err]_vars

\* C30: after remove_mint(url) the row of the mint is not active, the
\* wallet is not in the map, the stored proofs are the ones from before the
\* call, and neither mints() nor get_balances() has an entry of the mint
C30_RemoveMint ==
    [][\A url \in MintUrls :
          (pstate'.n # pstate.n /\ pstate'.last = <<"remove_mint", url>>)
          => /\ pstate'.mints[url] # "active"
             /\ url \notin pstate'.wallets
             /\ storeProofs' = storeProofs
             /\ url \notin active_mints(pstate'.mints)
             /\ \A key \in get_balances_keys(storeProofs', pstate'.mints) :
                   key[1] # url]_vars

\* C31: a piece whose mint has no wallet, and a piece with proofs handed
\* to the wallet of another mint, end in the error; no swap is sent, the
\* counter (memory and store) is as before, and proofs, transactions and
\* the mint's state are unchanged
C31_PieceRejected ==
    [][/\ (pstate.i > 0 /\ pstate'.i # pstate.i
              /\ pstate.pieces[pstate.i].mint \notin pstate.wallets)
          => /\ pstate'.last = [err |-> "mint_url notfound", req |-> FALSE,
                                piece |-> pstate.pieces[pstate.i]]
             /\ UNCHANGED <<storeProofs, storeTx, mgr, storeCounters>>
             /\ pstate'.spent = pstate.spent
             /\ pstate'.issued = pstate.issued
       /\ (pstate.i = 0 /\ pstate'.i = 0 /\ pstate'.n # pstate.n
              /\ pstate'.last.piece.mint # "A"
              /\ pstate'.last.piece.amount > 0)
          => /\ pstate'.last.err = "MintUrlUnmatched"
             /\ ~pstate'.last.req
             /\ UNCHANGED <<storeProofs, storeTx, mgr, storeCounters>>
             /\ pstate'.spent = pstate.spent
             /\ pstate'.issued = pstate.issued]_vars

\* reached: the second piece of a token was refused for its mint after the
\* first piece was received
C31_Witness ==
    /\ pstate # <<>> /\ Len(pstate.pieces) = 2
    /\ pstate.pieces[1].mint = "A" /\ pstate.pieces[1].amount > 0
    /\ pstate.last.piece = pstate.pieces[2]
    /\ pstate.last.err = "mint_url notfound"
    /\ storeProofs # {}

\* reached: the wallet of "A" refused the proofs of mint "B"
C31_WitnessUnmatched ==
    /\ pstate # <<>> /\ pstate.last.err = "MintUrlUnmatched"
    /\ pstate.last.piece.amount > 0

\* the keep and the send segment of a finished plan
PlanKeep == SubSeq(pstate.res.amounts, 1, pstate.res.send_idx_start)

PlanSend ==
    SubSeq(pstate.res.amounts, pstate.res.send_idx_start + 1,
           Len(pstate.res.amounts))

\* the amounts of s are powers of two, no two of them equal
PowersOfTwo(s) ==
    /\ \A i \in DOMAIN s : \E k \in 0..MaxAvail : s[i] = 2^k
    /\ \A i, j \in DOMAIN s : i # j => s[i] # s[j]

\* C32: a send with sum(inputs) >= amount plans a keep segment that sums
\* to sum(inputs) - amount and a send segment that sums to amount, with
\* send_idx_start = number of keep outputs; for N in {1, 2} the send
\* segment is amount div N outputs of N followed by the split of
\* amount mod N; N > 2 ends in an error returned to the caller
C32_SendPlan ==
    (pstate # <<>> /\ pstate.done /\ pstate.avail >= pstate.amount)
    => IF pstate.denom > 2
       THEN pstate.res.out = "error"
       ELSE /\ pstate.res.out = "ok"
            /\ SumSeq(PlanKeep) = pstate.avail - pstate.amount
            /\ SumSeq(PlanSend) = pstate.amount
            /\ pstate.res.send_idx_start = Len(split(pstate.avail
                                                     - pstate.amount))
            /\ PowersOfTwo(PlanKeep)
            /\ pstate.denom \in {1, 2}
                  => LET units == pstate.amount \div pstate.denom
                     IN /\ \A i \in 1..units : PlanSend[i] = pstate.denom
                        /\ PowersOfTwo(SubSeq(PlanSend, units + 1,
                                              Len(PlanSend)))
                        /\ SumSeq(SubSeq(PlanSend, units + 1, Len(PlanSend)))
                              = pstate.amount % pstate.denom

\* C33: when the mint answers an attempt of a swap with "outputs already
\* signed before" and the swap retries, the counters table holds, before
\* the retry is sent, a counter past the indices of that attempt; and when
\* a swap that retried has returned, whatever its outcome, the committed
\* counter of the wallet is past the indices of its refused attempts
C33_CommitBeforeRetry ==
    [][\A r \in Req :
          /\ (req[r].pc = "sent" /\ req'[r].pc = "sent"
                 /\ req'[r].i < req[r].i)
             => StoredCounter(storeCounters')
                   >= req[r].first + NumOutputs(req[r].args)
          /\ (req[r].pc = "sent" /\ req'[r].pc = "idle"
                 /\ Attempts(req[r]) > 1)
             => mgr'[req[r].inst][Pos(req[r].inst)].record.counter
                   >= req[r].first]_vars

\* C34: a swap sends at most three requests; it retries only after
\* "outputs already signed before" with a mnemonic, each retry draws the
\* indices that follow those of the attempt before; when the last attempt
\* is refused in the same way the counter advanced over all attempts is
\* committed in memory and in the store and the error is returned
C34_Retries ==
    [][\A r \in Req :
          LET q == req[r]
              n == NumOutputs(q.args)
          IN /\ q.pc = "sent" => Attempts(q) \in 1..SwapAttempts
             /\ (q.pc = "sent" /\ req'[r].pc = "sent" /\ req'[r] # q)
                => /\ hasMnemonic /\ q.args.kind = "swap"
                   /\ IdxRange(q) \cap signed # {}
                   /\ Attempts(req'[r]) = Attempts(q) + 1
                   /\ req'[r].first = q.start + n * Attempts(q)
                   /\ \A a \in q.start..(req'[r].first - 1) :
                         a \notin IdxRange(req'[r])
             /\ (q.pc = "sent" /\ q.args.kind = "swap" /\ q.i = 0)
                => req'[r] = q \/ req'[r].pc = "idle"
             /\ (Returns(r, {"signed_before"}) /\ q.args.kind = "swap")
                => /\ Attempts(q) = SwapAttempts
                   /\ mgr'[q.inst][Pos(q.inst)].record.counter
                         = q.start + n * SwapAttempts
                   /\ mgr'[q.inst][Pos(q.inst)].state
                         = q.start + n * SwapAttempts
                   /\ \E t \in KeyRows(storeCounters') :
                         t.counter = q.start + n * SwapAttempts]_vars

\* reached: a swap was refused three times and returned the error, the
\* store holds the counter after its three batches
C34_Witness ==
    /\ last.outcome = "signed_before" /\ last.args.kind = "swap"
    /\ last.attempts = SwapAttempts
    /\ \E t \in KeyRows(storeCounters) :
          t.counter = last.start + SwapAttempts * NumOutputs(last.args)

\* the batches of the running keyset answered so far, and the number of
\* them at the end that came back with no acknowledged output
ScanBatches == pstate.before \div RestoreBatch

ScanBatchEmpty(j) ==
    \A idx \in (j * RestoreBatch)..((j + 1) * RestoreBatch - 1) :
       MintOf(pstate.mint, pstate.k, idx) = "none"

ScanEmptyRun ==
    SetMax({r \in 0..ScanBatches :
               \A j \in (ScanBatches - r)..(ScanBatches - 1) :
                  ScanBatchEmpty(j)})

\* C35: at the top of the loop of a keyset, restore stops requesting
\* batches exactly when the last three batches all came back with no
\* acknowledged output
C35_ThreeConsecutive ==
    pstate.pc = "turn"
    => ((pstate.emptys >= EmptyBatches) <=> (ScanEmptyRun >= EmptyBatches))

\* C36: a mint, swap or melt that starts after a restore of the running
\* wallet has written counter c derives its outputs from indices >= c
C36_AfterRestore ==
    [][\A r \in Req :
          (req[r].pc = "waitlock" /\ req'[r].pc = "sent"
              /\ rst.pc = "idle" /\ rst.stored > 0)
          => req'[r].first >= rst.stored]_vars

\* C37: a task that does not hold a guard of the wallet's counter lock is
\* not its owner (the guard is gone after every outcome, and a task never
\* waits for the lock while it owns it), and a request waiting for the lock
\* eventually owns it
C37_LockReleased ==
    /\ [](\A r \in Req :
             req[r].pc \in {"idle", "keyset0", "waitlock"}
             => \A k \in Insts : lock[k] # r)
    /\ \A r \in Req :
          (req[r].pc \in {"keyset0", "waitlock"}) ~> (lock[1] = r)

\* reached: a request ended with an error and the lock is now held by the
\* melt of the other task, which took it a second time after keyset0
C37_Witness ==
    /\ last.outcome \in {"error", "dropped", "store_error", "unblind_failed"}
    /\ \E r \in Req :
          /\ lock[1] = r
          /\ req[r].pc = "sent"
          /\ req[r].args.kind = "melt"

\* C38: when the mint has answered the swap of a send, the call has
\* returned an error or built a split of the returned proofs whose
\* keep/send boundary is not beyond them; the assertion of
\* SplitProofsGeneric::new has not failed
C38_SplitBoundary ==
    pstate.fin.out # ""
    => \/ pstate.fin.out \in {"error", "Empty split response",
                              "promises size unexpected"}
       \/ pstate.fin.out = "ok" /\ pstate.fin.send_idx_start <= pstate.fin.n

\* C39: when the melt request fails after the preliminary swap of the
\* call succeeded, the call returns the error, the stored balance equals
\* the balance at the call, the selected proofs are gone from the store,
\* the proofs of the swap are in it (those meant for the melt included),
\* and the transactions table is as before and has no row of the quote
C39_SwapThenMeltFails ==
    [][(pstate.m.pc = "melt" /\ pstate.m.sel # pstate.m.sent
          /\ pstate'.m.pc = "idle" /\ ~pstate'.m.answered)
       => /\ pstate'.m.err # ""
          /\ Balance(storeProofs') = pstate.m.bal0
          /\ Secrets(SeqSet(pstate.m.sel)) \cap Secrets(storeProofs') = {}
          /\ SeqSet(pstate.m.sent) \subseteq storeProofs'
          /\ storeProofs' = storeProofs
          /\ storeTx' = storeTx
          /\ {t \in TxRows(backend, storeTx') : t.id = pstate.m.quote} = {}]_vars

\* reached: a melt that swapped 2 sat for 1 + 1 ended with the error of
\* the melt request; the balance is the one at the call
C39_Witness ==
    /\ pstate # <<>> /\ "m" \in DOMAIN pstate
    /\ pstate.m.pc = "idle" /\ pstate.m.err = "net"
    /\ pstate.m.sel # pstate.m.sent /\ pstate.m.sent # <<>>
    /\ SeqSet(pstate.m.sent) \subseteq storeProofs
    /\ Balance(storeProofs) = pstate.m.bal0
    /\ pstate.m.bal0 >= 2

====
